---- MODULE Spec2Model ----
(***************************************************************************)
(* Phase-gated TDD workflow engine of ai-tdd-workflow: the marker-file     *)
(* state store (hooks/lib/markers.py), the edit guard                      *)
(* (hooks/tdd-phase-guard.py), the stop-hook orchestrator                  *)
(* (hooks/tdd-orchestrator.py) and the session-end cleanup hook.           *)
(*                                                                         *)
(* A marker directory is a record of the files it holds.  A hook process  *)
(* is one action: it reads the directory its MarkerManager resolves to,    *)
(* changes it, and leaves its stdout response in `last`, which the host    *)
(* reads before it raises the next event.  The step-by-step interleaving   *)
(* of concurrently running hook processes is the second specification,     *)
(* SpecConc.                                                               *)
(***************************************************************************)
EXTENDS Integers, Sequences, FiniteSets, TLC

VARIABLES
    fs,     \* marker directory name -> the files of that directory
    env,    \* environment of the hook processes of the host session
    last,   \* the hook invocation that just exited: its input, the state it
            \* found, what it ran and what it printed; Idle once the host read it
    procs,  \* SpecConc: the concurrently running hook processes
    sup,    \* SpecSup: the supervisor process (tdd_supervisor/orchestrator.py)
    call    \* SpecMarkers, SpecPatterns: the library call that just returned

vars == <<fs, env, last, procs, sup, call>>

----------------------------------------------------------------------------
(* Bounds of the model *)

\* external writers of the phase record write the numbers 0..MaxPhaseValue
MaxPhaseValue == 5

\* number of concurrently running hook processes in SpecConc
NumProcs == 2

----------------------------------------------------------------------------
(* Text: a file's content is a sequence of one-character strings *)

Digits == <<"0", "1", "2", "3", "4", "5", "6", "7", "8", "9">>

IsDigit(c) == \E i \in 1..10 : Digits[i] = c

DigitVal(c) == (CHOOSE i \in 1..10 : Digits[i] = c) - 1

IsSpace(c) == c \in {" ", "\n", "\t"}

\* str(n) for n >= 0
RECURSIVE Str(_)
Str(n) == IF n < 10 THEN <<Digits[n + 1]>>
          ELSE Str(n \div 10) \o <<Digits[(n % 10) + 1]>>

\* text.strip()
RECURSIVE LStrip(_)
LStrip(t) == IF t # <<>> /\ IsSpace(Head(t)) THEN LStrip(Tail(t)) ELSE t

RECURSIVE RStrip(_)
RStrip(t) == IF t # <<>> /\ IsSpace(t[Len(t)])
             THEN RStrip(SubSeq(t, 1, Len(t) - 1)) ELSE t

Strip(t) == RStrip(LStrip(t))

RECURSIVE DigitsVal(_)
DigitsVal(t) == IF t = <<>> THEN 0
                ELSE 10 * DigitsVal(SubSeq(t, 1, Len(t) - 1)) + DigitVal(t[Len(t)])

\* int(text): an optional sign and one or more digits, surrounding blanks
\* ignored; anything else raises ValueError (ok = FALSE)
ParseInt(t) ==
    LET s    == Strip(t)
        neg  == s # <<>> /\ Head(s) = "-"
        body == IF s # <<>> /\ Head(s) \in {"-", "+"} THEN Tail(s) ELSE s
    IN  IF body # <<>> /\ \A i \in 1..Len(body) : IsDigit(body[i])
        THEN [ok |-> TRUE, val |-> IF neg THEN 0 - DigitsVal(body) ELSE DigitsVal(body)]
        ELSE [ok |-> FALSE, val |-> 0]

----------------------------------------------------------------------------
(* Marker directories *)

\* session identifiers of the host's sessions
Sessions == {"s1", "s2"}

SupervisorDir == "tdd-supervisor-w1"

SessionDir(session_id) == "tdd-" \o session_id

Dirs == {SessionDir(s) : s \in Sessions} \cup {SupervisorDir}

NoFile == [exists |-> FALSE, text |-> <<>>]

File(t) == [exists |-> TRUE, text |-> t]

\* a directory that does not exist
NoDir == [dir                    |-> FALSE,
          tdd_mode               |-> FALSE,
          tdd_phase              |-> NoFile,
          requirements_confirmed |-> FALSE,
          interfaces_designed    |-> FALSE,
          tests_approved         |-> FALSE,
          tests_passing          |-> FALSE,
          supervisor_active      |-> FALSE,
          requirements_summary   |-> NoFile,
          interfaces_list        |-> NoFile,
          tests_list             |-> NoFile]

CompletionFlags == {"requirements_confirmed", "interfaces_designed", "tests_approved"}

\* environments a host session's hooks run in: standalone, under the
\* supervisor (both variables set), and with only the active flag set
Envs == { [TDD_SUPERVISOR_MARKERS_DIR |-> "",            TDD_SUPERVISOR_ACTIVE |-> ""],
          [TDD_SUPERVISOR_MARKERS_DIR |-> SupervisorDir, TDD_SUPERVISOR_ACTIVE |-> "1"],
          [TDD_SUPERVISOR_MARKERS_DIR |-> "",            TDD_SUPERVISOR_ACTIVE |-> "1"] }

\* the sessions whose hook events are followed: without the override the
\* sessions have a directory each and one of them is followed; with it every
\* session's hooks are
SessionsOf(e) == IF e.TDD_SUPERVISOR_MARKERS_DIR # "" THEN Sessions ELSE {"s1"}

----------------------------------------------------------------------------
(* MarkerManager (hooks/lib/markers.py); m is the state of its directory *)

\* mutant: the directory is always the session's own
markers_dir_IgnoresOverride(session_id, e) == SessionDir(session_id)

\* mutant: without the override every session uses the directory of s1
markers_dir_OneDirectory(session_id, e) ==
    IF e.TDD_SUPERVISOR_MARKERS_DIR # "" THEN e.TDD_SUPERVISOR_MARKERS_DIR
    ELSE SessionDir("s1")

markers_dir(session_id, e) ==
    IF e.TDD_SUPERVISOR_MARKERS_DIR # "" THEN e.TDD_SUPERVISOR_MARKERS_DIR
    ELSE SessionDir(session_id)

\* __init__: markers_dir.mkdir(parents=True, exist_ok=True)
MarkerManagerInit(m) == [m EXCEPT !.dir = TRUE]

\* mutant: only the override directory counts as supervisor mode
is_supervisor_mode_OverrideOnly(e) == e.TDD_SUPERVISOR_MARKERS_DIR # ""

is_supervisor_mode(e) ==
    e.TDD_SUPERVISOR_MARKERS_DIR # "" \/ e.TDD_SUPERVISOR_ACTIVE = "1"

is_tdd_active(m) == m.tdd_mode

set_phase(m, phase) == [m EXCEPT !.tdd_phase = File(Str(phase))]

\* mutant: the value read is returned without the range check
get_phase_NoRangeCheck(m) ==
    IF ~m.tdd_phase.exists THEN [phase |-> 1, m |-> m]
    ELSE LET p == ParseInt(m.tdd_phase.text)
         IN  IF p.ok THEN [phase |-> p.val, m |-> m]
             ELSE [phase |-> 1, m |-> set_phase(m, 1)]

\* the value returned and the directory afterwards
get_phase(m) ==
    IF ~m.tdd_phase.exists THEN [phase |-> 1, m |-> m]
    ELSE LET p == ParseInt(m.tdd_phase.text)
         IN  IF p.ok /\ ~(p.val < 1 \/ p.val > 4)
             THEN [phase |-> p.val, m |-> m]
             ELSE [phase |-> 1, m |-> set_phase(m, 1)]

\* the phase record of directory state m holds the valid phase p
PersistedPhaseIs(m, p) ==
    /\ m.tdd_phase.exists
    /\ ParseInt(m.tdd_phase.text).ok
    /\ ParseInt(m.tdd_phase.text).val = p

create_marker(m, marker) == [m EXCEPT ![marker] = TRUE]

remove_marker(m, marker) ==
    IF marker = "tdd_phase" THEN [m EXCEPT !.tdd_phase = NoFile]
    ELSE [m EXCEPT ![marker] = FALSE]

\* mutant: the tests-passing signal survives the removal of the scope
cleanup_session_KeepsTestsPassing(m) ==
    [NoDir EXCEPT !.dir = m.tests_passing, !.tests_passing = m.tests_passing]

cleanup_session(m) == NoDir

\* mutant: the phase record is left out of the list of markers removed
cleanup_all_markers_KeepsPhase(m) ==
    remove_marker(remove_marker(remove_marker(remove_marker(m,
        "tdd_mode"), "requirements_confirmed"),
        "interfaces_designed"), "tests_approved")

cleanup_all_markers(m) ==
    remove_marker(remove_marker(remove_marker(remove_marker(remove_marker(m,
        "tdd_mode"), "tdd_phase"), "requirements_confirmed"),
        "interfaces_designed"), "tests_approved")

----------------------------------------------------------------------------
(* Hook input and response (hooks/lib/hook_io.py) *)

ToolNames == {"Write", "Edit", "Read"}

ProjectDir == "/project"

\* cwd values: absent, a directory, a path that is no directory
Cwds == {"", ProjectDir, "/missing"}

IsDir(cwd) == cwd = ProjectDir

HookInput(session_id, tool_name, file_path, cwd, stop_hook_active, hook_event_name) ==
    [session_id       |-> session_id,
     tool_name        |-> tool_name,
     file_path        |-> file_path,
     cwd              |-> cwd,
     stop_hook_active |-> stop_hook_active,
     hook_event_name  |-> hook_event_name]

NoInput == HookInput("", "", "", "", FALSE, "")

\* nothing printed: the host treats it as approve
NoResponse == [decision |-> "", reason |-> "", output |-> "", context |-> ""]

\* {"decision": "block", "reason": reason + agent_content}; `output` is the
\* captured command output the reason is formatted from
block_response(reason, output, agent_content) ==
    [decision |-> "block", reason |-> reason, output |-> output, context |-> agent_content]

approve_response(context) ==
    [decision |-> "approve", reason |-> "", output |-> "", context |-> context]

----------------------------------------------------------------------------
(* Collaborators whose results are inputs of a hook invocation *)

\* TDDConfig.is_main_source / is_test_source / is_config_file of the edited path
Classifications == [is_main : BOOLEAN, is_test : BOOLEAN, is_config : BOOLEAN]

NoClass == [is_main |-> FALSE, is_test |-> FALSE, is_config |-> FALSE]

\* TDDConfig.get_command for the resolved profile; "" when not configured
Profiles ==
    { [name |-> "",                compile |-> "",              testCompile |-> "",                 test |-> ""],
      [name |-> "kotlin-maven",    compile |-> "mvn compile",   testCompile |-> "mvn test-compile", test |-> "mvn test"],
      [name |-> "typescript-npm",  compile |-> "npm run build", testCompile |-> "",                 test |-> "npm test"],
      [name |-> "python-pytest",   compile |-> "",              testCompile |-> "",                 test |-> "pytest"] }

NoProfile == [name |-> "", compile |-> "", testCompile |-> "", test |-> ""]

\* AgentLoader.load_phase_agents(phase): the guidance of the phase, "" when
\* the agents directory is missing or holds no agent of the phase
load_phase_agents(phase, agents_installed) ==
    IF agents_installed
    THEN <<"agents of phase 1", "agents of phase 2",
           "agents of phase 3", "agents of phase 4">>[phase]
    ELSE ""

----------------------------------------------------------------------------
(* The record a hook process leaves when it exits *)

Exited(hook, input, d, pre, config, cls, current_phase, cmds, writes, response) ==
    [hook          |-> hook,
     input         |-> input,
     dir           |-> d,
     pre           |-> pre,
     config        |-> config,
     cls           |-> cls,
     current_phase |-> current_phase,
     cmds          |-> cmds,
     writes        |-> writes,
     response      |-> response]

Idle == Exited("idle", NoInput, "", NoDir, NoProfile, NoClass, 0, <<>>, <<>>, NoResponse)

----------------------------------------------------------------------------
(* Edit guard, PreToolUse hook (hooks/tdd-phase-guard.py) *)

\* mutant: phase 3 blocks every main-source path, also one that is a test
PhaseRules_Phase3BlocksAllMain(current_phase, cls) ==
    IF current_phase = 1 /\ (cls.is_main \/ cls.is_test) THEN
        block_response("TDD Phase 1: Cannot edit source files during requirements gathering",
                       "", "format_phase_guard_phase1_block")
    ELSE IF current_phase = 2 /\ cls.is_test THEN
        block_response("TDD Phase 2: Cannot write tests during interface design",
                       "", "format_phase_guard_phase2_block")
    ELSE IF current_phase = 3 /\ cls.is_main THEN
        block_response("TDD Phase 3: Cannot edit implementation during test writing",
                       "", "format_phase_guard_phase3_block")
    ELSE NoResponse

\* the phase-specific rules, lines 71-104
PhaseRules(current_phase, cls) ==
    IF current_phase = 1 THEN
        IF cls.is_main \/ cls.is_test
        THEN block_response("TDD Phase 1: Cannot edit source files during requirements gathering",
                            "", "format_phase_guard_phase1_block")
        ELSE NoResponse
    ELSE IF current_phase = 2 THEN
        IF cls.is_test
        THEN block_response("TDD Phase 2: Cannot write tests during interface design",
                            "", "format_phase_guard_phase2_block")
        ELSE NoResponse
    ELSE IF current_phase = 3 THEN
        IF cls.is_main /\ ~cls.is_test /\ ~cls.is_config
        THEN block_response("TDD Phase 3: Cannot edit implementation during test writing",
                            "", "format_phase_guard_phase3_block")
        ELSE NoResponse
    ELSE NoResponse

\* main(): the directory afterwards, the phase read (0: not read), the response
PhaseGuardMain(m_in, hook, cls) ==
    LET m0 == MarkerManagerInit(m_in)
    IN  IF ~is_tdd_active(m0) THEN
            [m |-> m0, current_phase |-> 0, response |-> NoResponse]
        ELSE IF hook.tool_name \notin {"Write", "Edit"} THEN
            [m |-> m0, current_phase |-> 0, response |-> NoResponse]
        ELSE IF hook.file_path = "" THEN
            [m |-> m0, current_phase |-> 0, response |-> NoResponse]
        ELSE LET g == get_phase(m0)
             IN  [m |-> g.m, current_phase |-> g.phase,
                  response |-> PhaseRules(g.phase, cls)]

PhaseGuard(session_id, tool_name, file_path, cls) ==
    LET hook == HookInput(session_id, tool_name, file_path, ProjectDir, FALSE, "PreToolUse")
        d    == markers_dir(session_id, env)
        r    == PhaseGuardMain(fs[d], hook, cls)
    IN  /\ last = Idle
        /\ fs' = [fs EXCEPT ![d] = r.m]
        /\ last' = Exited("tdd-phase-guard", hook, d, fs[d], NoProfile, cls,
                          r.current_phase, <<>>, <<>>, r.response)
        /\ UNCHANGED <<env, procs, sup, call>>

----------------------------------------------------------------------------
(* Stop-hook orchestrator (hooks/tdd-orchestrator.py) *)

\* run_command's default timeout and the timeout main() gives the test command
CompileTimeout == 120

TestTimeout == 300

\* run_command is called at most four times in one invocation (lines 133,
\* 158, 181, 190)
MaxRuns == 4

\* what a spawned command can do: exit 0, exit non-zero, outlive the timeout
\* (subprocess.TimeoutExpired), or fail to be spawned (any other exception)
FailKinds == {"exit2", "timeout", "spawn_error"}

Outcomes == {"exit0"} \cup FailKinds

\* mutant: a command that outlives the timeout counts as one that exited 0
run_command_TimeoutExitsZero(cmd, timeout, outcome) ==
    IF outcome = "exit0" THEN [exit_code |-> 0, output |-> "BUILD SUCCESS"]
    ELSE IF outcome = "exit2" THEN [exit_code |-> 2, output |-> "error X"]
    ELSE IF outcome = "timeout" THEN
        [exit_code |-> 0,
         output    |-> IF timeout = CompileTimeout
                       THEN "Command timed out after 120 seconds"
                       ELSE "Command timed out after 300 seconds"]
    ELSE [exit_code |-> 1, output |-> "Command error: spawn failed"]

\* run_command(cmd, timeout) when the command does `outcome`
run_command(cmd, timeout, outcome) ==
    IF outcome = "exit0" THEN [exit_code |-> 0, output |-> "BUILD SUCCESS"]
    ELSE IF outcome = "exit2" THEN [exit_code |-> 2, output |-> "error X"]
    ELSE IF outcome = "timeout" THEN
        [exit_code |-> 1,
         output    |-> IF timeout = CompileTimeout
                       THEN "Command timed out after 120 seconds"
                       ELSE "Command timed out after 300 seconds"]
    ELSE [exit_code |-> 1, output |-> "Command error: spawn failed"]

\* The outcomes of the commands of one invocation.  An invocation returns at
\* the first command that fails, so its runs are some successes followed by
\* at most one failure: the fail_at-th run fails as fail_kind (0: none does).
Scripts == {[fail_at |-> 0, fail_kind |-> "exit2"]}
               \cup [fail_at : 1..MaxRuns, fail_kind : FailKinds]

NoScript == [fail_at |-> 0, fail_kind |-> "exit2"]

\* c: the local state of main() - the directory, current_phase, the commands
\* run and the phases written so far, the response printed and whether
\* main() has returned
RunNext(c, script, cmd, timeout) ==
    LET outcome == IF Len(c.cmds) + 1 = script.fail_at THEN script.fail_kind ELSE "exit0"
        r       == run_command(cmd, timeout, outcome)
    IN  [c EXCEPT !.cmds = Append(@, [cmd       |-> cmd,
                                      timeout   |-> timeout,
                                      at        |-> c.current_phase,
                                      exit_code |-> r.exit_code,
                                      output    |-> r.output])]

LastRun(c) == c.cmds[Len(c.cmds)]

Return(c, response) == [c EXCEPT !.response = response, !.returned = TRUE]

\* mutant: the phase is written but main() goes on with the phase it read
Advance_KeepsCurrentPhase(c, phase) ==
    [c EXCEPT !.m = set_phase(@, phase), !.writes = Append(@, phase)]

Advance(c, phase) ==
    [c EXCEPT !.m = set_phase(@, phase), !.current_phase = phase,
              !.writes = Append(@, phase)]

\* mutant: main() returns once phase 2 is written
Phase1_ReturnsAfterAdvance(c, agents_installed) ==
    IF c.returned \/ c.current_phase # 1 THEN c
    ELSE IF c.m.requirements_confirmed THEN Return(Advance(c, 2), NoResponse)
    ELSE Return(c, block_response("format_phase1_block", "",
                                  load_phase_agents(1, agents_installed)))

\* lines 115-127
Phase1(c, agents_installed) ==
    IF c.returned \/ c.current_phase # 1 THEN c
    ELSE IF c.m.requirements_confirmed THEN Advance(c, 2)
    ELSE Return(c, block_response("format_phase1_block", "",
                                  load_phase_agents(1, agents_installed)))

\* mutant: the approval marker is looked at first, the compile only without it
Phase2_FlagBeforeCompile(c, config, script, agents_installed) ==
    IF c.returned \/ c.current_phase # 2 THEN c
    ELSE IF c.m.interfaces_designed THEN Advance(c, 3)
    ELSE LET ran == config.compile # ""
             c1  == IF ran THEN RunNext(c, script, config.compile, CompileTimeout) ELSE c
         IN  IF ran /\ LastRun(c1).exit_code # 0 THEN
                 Return(c1, block_response("format_phase2_compile_error", LastRun(c1).output,
                                           load_phase_agents(2, agents_installed)))
             ELSE Return(c1, block_response("format_phase2_awaiting_approval", "",
                                            load_phase_agents(2, agents_installed)))

\* mutant: a compile that exits 0 creates the interfaces flag
Phase2_CompileSuccessSetsFlag(c, config, script, agents_installed) ==
    IF c.returned \/ c.current_phase # 2 THEN c
    ELSE LET ran == config.compile # ""
             c1  == IF ran THEN RunNext(c, script, config.compile, CompileTimeout) ELSE c
         IN  IF ran /\ LastRun(c1).exit_code # 0 THEN
                 Return(c1, block_response("format_phase2_compile_error", LastRun(c1).output,
                                           load_phase_agents(2, agents_installed)))
             ELSE IF ran \/ c1.m.interfaces_designed THEN
                 Advance([c1 EXCEPT !.m = create_marker(@, "interfaces_designed")], 3)
             ELSE Return(c1, block_response("format_phase2_awaiting_approval", "",
                                            load_phase_agents(2, agents_installed)))

\* lines 129-151
Phase2(c, config, script, agents_installed) ==
    IF c.returned \/ c.current_phase # 2 THEN c
    ELSE LET ran == config.compile # ""
             c1  == IF ran THEN RunNext(c, script, config.compile, CompileTimeout) ELSE c
         IN  IF ran /\ LastRun(c1).exit_code # 0 THEN
                 Return(c1, block_response("format_phase2_compile_error", LastRun(c1).output,
                                           load_phase_agents(2, agents_installed)))
             ELSE IF c1.m.interfaces_designed THEN Advance(c1, 3)
             ELSE Return(c1, block_response("format_phase2_awaiting_approval", "",
                                            load_phase_agents(2, agents_installed)))

\* mutant: the compile command is checked whatever testCompile is
TestCompileCommand_AlwaysCompile(config) == config.compile

\* line 156: test_compile_cmd or compile_cmd
TestCompileCommand(config) ==
    IF config.testCompile # "" THEN config.testCompile ELSE config.compile

\* mutant: phase 3 blocks when there is no command to check the tests with
Phase3_BlocksWithoutCommand(c, config, script, agents_installed) ==
    IF c.returned \/ c.current_phase # 3 THEN c
    ELSE LET test_compile == TestCompileCommand(config)
             ran == test_compile # ""
             c1  == IF ran THEN RunNext(c, script, test_compile, CompileTimeout) ELSE c
         IN  IF ~ran \/ LastRun(c1).exit_code # 0 THEN
                 Return(c1, block_response("format_phase3_compile_error",
                                           IF ran THEN LastRun(c1).output ELSE "",
                                           load_phase_agents(3, agents_installed)))
             ELSE IF c1.m.tests_approved THEN Advance(c1, 4)
             ELSE Return(c1, block_response("format_phase3_awaiting_approval", "",
                                            load_phase_agents(3, agents_installed)))

\* lines 153-175
Phase3(c, config, script, agents_installed) ==
    IF c.returned \/ c.current_phase # 3 THEN c
    ELSE LET test_compile == TestCompileCommand(config)
             ran == test_compile # ""
             c1  == IF ran THEN RunNext(c, script, test_compile, CompileTimeout) ELSE c
         IN  IF ran /\ LastRun(c1).exit_code # 0 THEN
                 Return(c1, block_response("format_phase3_compile_error", LastRun(c1).output,
                                           load_phase_agents(3, agents_installed)))
             ELSE IF c1.m.tests_approved THEN Advance(c1, 4)
             ELSE Return(c1, block_response("format_phase3_awaiting_approval", "",
                                            load_phase_agents(3, agents_installed)))

\* mutant: the test command is run before the compile failure is reported
Phase4CompileFailed_RunsTest(c, config, script, agents_installed) ==
    Return(IF config.test # "" THEN RunNext(c, script, config.test, TestTimeout) ELSE c,
           block_response("format_phase4_orchestrator_compile_error", LastRun(c).output,
                          load_phase_agents(4, agents_installed)))

\* lines 182-186: the compile of phase 4 exited non-zero
Phase4CompileFailed(c, config, script, agents_installed) ==
    Return(c, block_response("format_phase4_orchestrator_compile_error", LastRun(c).output,
                             load_phase_agents(4, agents_installed)))

\* mutant: the passing marker is created before the test result is looked at
Phase4TestFailed_CreatesSignal(c, agents_installed) ==
    Return([c EXCEPT !.m = create_marker(@, "tests_passing")],
           block_response("format_phase4_orchestrator_test_failure", LastRun(c).output,
                          load_phase_agents(4, agents_installed)))

\* mutant: the workflow markers are cleaned up on a test failure too
Phase4TestFailed_CleansUp(c, agents_installed) ==
    Return([c EXCEPT !.m = cleanup_all_markers(@)],
           block_response("format_phase4_orchestrator_test_failure", LastRun(c).output,
                          load_phase_agents(4, agents_installed)))

\* lines 191-195: the test command exited non-zero
Phase4TestFailed(c, agents_installed) ==
    Return(c, block_response("format_phase4_orchestrator_test_failure", LastRun(c).output,
                             load_phase_agents(4, agents_installed)))

\* mutant: the success cleanup leaves the activity flag in place
Phase4Complete_KeepsActive(c) ==
    Return([c EXCEPT !.m = create_marker(cleanup_all_markers(create_marker(@,
                               "tests_passing")), "tdd_mode")],
           NoResponse)

\* lines 197-206: create the passing marker, clean up the workflow markers
Phase4Complete(c) ==
    Return([c EXCEPT !.m = cleanup_all_markers(create_marker(@, "tests_passing"))],
           NoResponse)

\* lines 177-206
Phase4(c, config, script, agents_installed) ==
    IF c.returned \/ c.current_phase # 4 THEN c
    ELSE LET ranc == config.compile # ""
             c1   == IF ranc THEN RunNext(c, script, config.compile, CompileTimeout) ELSE c
         IN  IF ranc /\ LastRun(c1).exit_code # 0 THEN
                 Phase4CompileFailed(c1, config, script, agents_installed)
             ELSE LET rant == config.test # ""
                      c2   == IF rant THEN RunNext(c1, script, config.test, TestTimeout)
                              ELSE c1
                  IN  IF rant /\ LastRun(c2).exit_code # 0 THEN
                          Phase4TestFailed(c2, agents_installed)
                      ELSE Phase4Complete(c2)

\* mutant: the phase is reset to 1 at the end of every invocation
UnknownPhase_AlwaysResets(c) == [c EXCEPT !.m = set_phase(@, 1)]

\* lines 208-209
UnknownPhase(c) == IF c.returned THEN c ELSE [c EXCEPT !.m = set_phase(@, 1)]

\* lines 90-96
InitializePhase(m) ==
    LET g == get_phase(m)
    IN  IF ~g.m.tdd_phase.exists
        THEN [phase |-> 1, m |-> remove_marker(set_phase(g.m, 1), "tests_passing")]
        ELSE g

\* mutant: the re-entrancy flag is not looked at
Reentrant_Ignored(hook) == FALSE

\* lines 65-67: this stop event continues the hook's own earlier block
Reentrant(hook) == hook.stop_hook_active

\* main(), lines 56-209
OrchestratorMain(m_in, hook, e, config, script, agents_installed) ==
    LET m0 == MarkerManagerInit(m_in)
        c0 == [m |-> m0, current_phase |-> 0, cmds |-> <<>>, writes |-> <<>>,
               response |-> NoResponse, returned |-> FALSE]
    IN  IF Reentrant(hook) THEN Return(c0, NoResponse)
        ELSE IF ~is_tdd_active(m0) THEN Return(c0, NoResponse)
        ELSE IF is_supervisor_mode(e) THEN
            LET g            == get_phase(m0)
                phase_agents == load_phase_agents(g.phase, agents_installed)
            IN  Return([c0 EXCEPT !.m = g.m, !.current_phase = g.phase],
                       IF phase_agents # "" THEN approve_response(phase_agents)
                       ELSE NoResponse)
        ELSE LET i  == InitializePhase(m0)
                 c1 == [c0 EXCEPT !.m = i.m, !.current_phase = i.phase]
             IN  IF hook.cwd = "" \/ ~IsDir(hook.cwd) THEN Return(c1, NoResponse)
                 ELSE UnknownPhase(
                          Phase4(
                              Phase3(
                                  Phase2(
                                      Phase1(c1, agents_installed),
                                      config, script, agents_installed),
                                  config, script, agents_installed),
                              config, script, agents_installed))

Orchestrator(session_id, cwd, stop_hook_active, config, script, agents_installed) ==
    LET hook == HookInput(session_id, "", "", cwd, stop_hook_active, "Stop")
        d    == markers_dir(session_id, env)
        c    == OrchestratorMain(fs[d], hook, env, config, script, agents_installed)
    IN  /\ last = Idle
        /\ fs' = [fs EXCEPT ![d] = c.m]
        /\ last' = Exited("tdd-orchestrator", hook, d, fs[d], config, NoClass,
                          c.current_phase, c.cmds, c.writes, c.response)
        /\ UNCHANGED <<env, procs, sup, call>>

----------------------------------------------------------------------------
(* Session-end cleanup hook (hooks/tdd-cleanup-markers.py) *)

EventNames == {"SessionEnd", "Stop"}

\* main(), lines 19-36
CleanupMarkersMain(m_in, hook) ==
    IF hook.hook_event_name # "SessionEnd" THEN m_in
    ELSE cleanup_session(MarkerManagerInit(m_in))

CleanupMarkers(session_id, hook_event_name) ==
    LET hook == HookInput(session_id, "", "", ProjectDir, FALSE, hook_event_name)
        d    == markers_dir(session_id, env)
    IN  /\ last = Idle
        /\ fs' = [fs EXCEPT ![d] = CleanupMarkersMain(fs[d], hook)]
        /\ last' = Exited("tdd-cleanup-markers", hook, d, fs[d], NoProfile, NoClass,
                          0, <<>>, <<>>, NoResponse)
        /\ UNCHANGED <<env, procs, sup, call>>

----------------------------------------------------------------------------
(* Auto-compile, PostToolUse hook (hooks/tdd-auto-compile.py) *)

\* {"decision": "approve", "reason": reason, hookSpecificOutput: context};
\* `output` is the captured compile output the context is formatted from
approve_with_message(reason, output, context) ==
    [decision |-> "approve", reason |-> reason, output |-> output, context |-> context]

\* lines 77-93: subprocess.run(compile_cmd, timeout=120) and its except clauses
AutoCompileRun(cmd, outcome) ==
    IF outcome = "exit0" THEN [exit_code |-> 0, output |-> "BUILD SUCCESS"]
    ELSE IF outcome = "exit2" THEN [exit_code |-> 2, output |-> "error X"]
    ELSE IF outcome = "timeout" THEN
        [exit_code |-> 1, output |-> "Compilation timed out after 120 seconds"]
    ELSE [exit_code |-> 1, output |-> "Compilation error: spawn failed"]

\* main(), lines 36-108
AutoCompileMain(m_in, hook, cls, config, outcome) ==
    LET m0   == MarkerManagerInit(m_in)
        quit == [m |-> m0, current_phase |-> 0, cmds |-> <<>>, response |-> NoResponse]
    IN  IF hook.tool_name \notin {"Write", "Edit"} THEN quit
        ELSE IF hook.cwd = "" \/ ~IsDir(hook.cwd) THEN quit
        ELSE IF ~(cls.is_main \/ cls.is_test) THEN quit
        ELSE LET g  == IF is_tdd_active(m0) THEN get_phase(m0) ELSE [phase |-> 0, m |-> m0]
                 q1 == [quit EXCEPT !.m = g.m, !.current_phase = g.phase]
             IN  IF g.phase = 4 THEN q1
                 ELSE IF config.compile = "" THEN q1
                 ELSE LET r   == AutoCompileRun(config.compile, outcome)
                          run == [cmd       |-> config.compile,
                                  timeout   |-> CompileTimeout,
                                  at        |-> g.phase,
                                  exit_code |-> r.exit_code,
                                  output    |-> r.output]
                      IN  [q1 EXCEPT !.cmds = <<run>>,
                                     !.response =
                                         IF r.exit_code = 0 THEN NoResponse
                                         ELSE approve_with_message("Compilation failed",
                                                  r.output, "format_compile_error")]

AutoCompile(session_id, tool_name, cwd, cls, config, outcome) ==
    LET hook == HookInput(session_id, tool_name, "/project/src/Service.kt", cwd, FALSE,
                          "PostToolUse")
        d    == markers_dir(session_id, env)
        r    == AutoCompileMain(fs[d], hook, cls, config, outcome)
    IN  /\ last = Idle
        /\ fs' = [fs EXCEPT ![d] = r.m]
        /\ last' = Exited("tdd-auto-compile", hook, d, fs[d], config, cls,
                          r.current_phase, r.cmds, <<>>, r.response)
        /\ UNCHANGED <<env, procs, sup, call>>

----------------------------------------------------------------------------
(* What the user and the agent do to the marker directory between hooks *)

\* TDD mode is switched on: the tdd-mode marker is created
ActivateTDD(session_id) ==
    LET d == markers_dir(session_id, env)
    IN  /\ last = Idle
        /\ ~fs[d].tdd_mode
        /\ fs' = [fs EXCEPT ![d] = create_marker(MarkerManagerInit(@), "tdd_mode")]
        /\ UNCHANGED <<env, last, procs, sup, call>>

\* a phase's deliverable is approved: its completion flag is created
ConfirmPhase(session_id, flag) ==
    LET d == markers_dir(session_id, env)
    IN  /\ last = Idle
        /\ ~fs[d][flag]
        /\ fs' = [fs EXCEPT ![d] = create_marker(MarkerManagerInit(@), flag)]
        /\ UNCHANGED <<env, last, procs, sup, call>>

\* texts found in a phase record that no set_phase wrote: a number outside
\* 1..4, a number with a trailing newline, text that is no number, nothing
ExternalPhaseTexts ==
    {Str(n) : n \in 0..MaxPhaseValue}
        \cup {<<"9", "9">>, <<"3", "\n">>, <<"a", "b", "c">>, <<>>}

WritePhaseFile(session_id, text) ==
    LET d == markers_dir(session_id, env)
    IN  /\ last = Idle
        /\ fs[d].tdd_phase # File(text)
        /\ fs' = [fs EXCEPT ![d] = [MarkerManagerInit(@) EXCEPT !.tdd_phase = File(text)]]
        /\ UNCHANGED <<env, last, procs, sup, call>>

\* the host reads the response of the hook that exited
HostReadsResponse ==
    /\ last # Idle
    /\ last' = Idle
    /\ UNCHANGED <<fs, env, procs, sup, call>>

----------------------------------------------------------------------------
(* The sequential specification: hooks run one at a time *)

NoProc == [op |-> "none", pc |-> "done", arg |-> 0, seen |-> <<>>, reset |-> FALSE, ret |-> 0]

NoProcs == [p \in 1..NumProcs |-> NoProc]

\* The stop events raised: what main() does not read before it returns is
\* given one value (a re-entrant event returns before the working directory,
\* the commands and the agents are looked at; an event without a working
\* directory before the commands are).
StopEvents ==
    [cwd : {ProjectDir}, stop_hook_active : {TRUE}, config : Profiles,
     script : {NoScript}, agents_installed : {FALSE}]
    \cup [cwd : {"", "/missing"}, stop_hook_active : {FALSE}, config : {NoProfile},
          script : {NoScript}, agents_installed : BOOLEAN]
    \cup [cwd : {ProjectDir}, stop_hook_active : {FALSE}, config : Profiles,
          script : Scripts, agents_installed : BOOLEAN]

\* The PostToolUse events raised: a tool that is not guarded, an event
\* without a working directory, an edit of a file that is no source file, and
\* edits of a main source file under each profile with each compile outcome
\* (one outcome where no compile command is configured).
PostToolUseEvents ==
    [tool_name : {"Read"}, cwd : {ProjectDir}, cls : {NoClass}, config : {NoProfile},
     outcome : {"exit0"}]
    \cup [tool_name : {"Write"}, cwd : {""}, cls : {NoClass}, config : {NoProfile},
          outcome : {"exit0"}]
    \cup [tool_name : {"Edit"}, cwd : {ProjectDir},
          cls : {[is_main |-> FALSE, is_test |-> FALSE, is_config |-> TRUE]},
          config : {NoProfile}, outcome : {"exit0"}]
    \cup { ev \in [tool_name : {"Write"}, cwd : {ProjectDir},
                   cls : {[is_main |-> TRUE, is_test |-> FALSE, is_config |-> FALSE]},
                   config : Profiles, outcome : Outcomes] :
               ev.config.compile = "" => ev.outcome = "exit0" }

\* no library call was made
NoCall == [op |-> "none", arg |-> 0, text |-> <<>>, pre |-> NoDir, ret |-> 0, ret_text |-> <<>>]

\* the supervisor has not been started
NoSup ==
    [pc              |-> "idle",
     phase           |-> 0,
     session_id      |-> "",
     phase_complete  |-> FALSE,
     left_by         |-> "",
     context         |-> <<>>,
     first_text      |-> <<>>,
     initial_summary |-> <<>>,
     review_response |-> <<>>,
     summary         |-> <<>>,
     turns           |-> <<>>,
     log             |-> <<>>,
     cancelled       |-> FALSE,
     outcome         |-> ""]

Init ==
    /\ fs = [d \in Dirs |-> NoDir]
    /\ env \in Envs
    /\ last = Idle
    /\ procs = NoProcs
    /\ sup = NoSup
    /\ call = NoCall

Next ==
    \/ \E s \in SessionsOf(env), t \in ToolNames, f \in {"", "/project/src/Service.kt"},
          cls \in Classifications :
          PhaseGuard(s, t, f, cls)
    \/ \E s \in SessionsOf(env), ev \in StopEvents :
          Orchestrator(s, ev.cwd, ev.stop_hook_active, ev.config, ev.script,
                       ev.agents_installed)
    \/ \E s \in SessionsOf(env), ev \in PostToolUseEvents :
          AutoCompile(s, ev.tool_name, ev.cwd, ev.cls, ev.config, ev.outcome)
    \/ \E s \in SessionsOf(env), ev \in EventNames : CleanupMarkers(s, ev)
    \/ \E s \in SessionsOf(env) : ActivateTDD(s)
    \/ \E s \in SessionsOf(env), flag \in CompletionFlags : ConfirmPhase(s, flag)
    \/ \E s \in SessionsOf(env), text \in ExternalPhaseTexts : WritePhaseFile(s, text)
    \/ HostReadsResponse

Spec == Init /\ [][Next]_vars

----------------------------------------------------------------------------
(* Two sessions without the override: the hooks of both sessions of the host
   run, one at a time, in an environment with neither supervisor variable
   set, each on the directory its MarkerManager resolves to. *)

\* the stop events raised in the two sessions: a build that passes and one
\* whose first command fails
TwoSessionStopEvents ==
    [cwd : {ProjectDir}, stop_hook_active : {FALSE},
     config : {CHOOSE c \in Profiles : c.name = "typescript-npm"},
     script : {NoScript, [fail_at |-> 1, fail_kind |-> "exit2"]},
     agents_installed : {FALSE}]

InitTwoSessions ==
    /\ fs = [d \in Dirs |-> NoDir]
    /\ env = [TDD_SUPERVISOR_MARKERS_DIR |-> "", TDD_SUPERVISOR_ACTIVE |-> ""]
    /\ last = Idle
    /\ procs = NoProcs
    /\ sup = NoSup
    /\ call = NoCall

NextTwoSessions ==
    \/ \E s \in Sessions, cls \in {[is_main |-> TRUE, is_test |-> FALSE, is_config |-> FALSE]} :
          PhaseGuard(s, "Write", "/project/src/Service.kt", cls)
    \/ \E s \in Sessions, ev \in TwoSessionStopEvents :
          Orchestrator(s, ev.cwd, ev.stop_hook_active, ev.config, ev.script,
                       ev.agents_installed)
    \/ \E s \in Sessions : CleanupMarkers(s, "SessionEnd")
    \/ \E s \in Sessions : ActivateTDD(s)
    \/ \E s \in Sessions, flag \in CompletionFlags : ConfirmPhase(s, flag)
    \/ HostReadsResponse

SpecTwoSessions == InitTwoSessions /\ [][NextTwoSessions]_vars

----------------------------------------------------------------------------
(* The concurrent specification: hook processes of one scope run at the same
   time, and every file operation of MarkerManager.get_phase and set_phase
   is a step of its own.  Path.write_text opens the file for writing, which
   truncates it, and writes the text afterwards; Path.exists and
   Path.read_text are separate system calls. *)

ConcDir == SessionDir("s1")

\* a hook process starts reading the phase (guard line 60, orchestrator line 91)
BeginGetPhase(p) ==
    /\ procs[p].pc = "done"
    /\ procs' = [procs EXCEPT ![p] = [NoProc EXCEPT !.op = "get_phase", !.pc = "exists"]]
    /\ UNCHANGED <<fs, env, last, sup, call>>

\* an orchestrator process that found phase - 1 persisted and its completion
\* flag present starts set_phase(phase) (lines 118, 142, 166)
BeginSetPhase(p, phase) ==
    /\ procs[p].pc = "done"
    /\ PersistedPhaseIs(fs[ConcDir], phase - 1)
    /\ procs' = [procs EXCEPT ![p] = [NoProc EXCEPT !.op = "set_phase", !.pc = "open",
                                                    !.arg = phase]]
    /\ UNCHANGED <<fs, env, last, sup, call>>

\* write_text, first half: open(mode='w') creates or truncates the file
WriteTextOpen(p) ==
    /\ procs[p].pc = "open"
    /\ fs' = [fs EXCEPT ![ConcDir].tdd_phase = File(<<>>)]
    /\ procs' = [procs EXCEPT ![p].pc = "write"]
    /\ UNCHANGED <<env, last, sup, call>>

\* write_text, second half: the text is written and the file closed; a
\* get_phase that was resetting the record returns 1
WriteTextClose(p) ==
    /\ procs[p].pc = "write"
    /\ fs' = [fs EXCEPT ![ConcDir].tdd_phase = File(Str(procs[p].arg))]
    /\ procs' = [procs EXCEPT ![p].pc = "done",
                              ![p].ret = IF procs[p].op = "get_phase" THEN 1 ELSE 0]
    /\ UNCHANGED <<env, last, sup, call>>

\* get_phase line 74: tdd_phase.exists()
GetPhaseExists(p) ==
    /\ procs[p].pc = "exists"
    /\ procs' = [procs EXCEPT ![p] =
                    IF fs[ConcDir].tdd_phase.exists THEN [@ EXCEPT !.pc = "read"]
                    ELSE [@ EXCEPT !.pc = "done", !.ret = 1]]
    /\ UNCHANGED <<fs, env, last, sup, call>>

\* get_phase lines 76-84: read_text, int, the range check; on ValueError or
\* OSError the call goes on to set_phase(1)
GetPhaseRead(p) ==
    /\ procs[p].pc = "read"
    /\ LET text  == fs[ConcDir].tdd_phase.text
           v     == ParseInt(text)
           valid == fs[ConcDir].tdd_phase.exists /\ v.ok /\ ~(v.val < 1 \/ v.val > 4)
       IN  procs' = [procs EXCEPT ![p] =
                        IF valid THEN [@ EXCEPT !.pc = "done", !.seen = text, !.ret = v.val]
                        ELSE [@ EXCEPT !.pc = "open", !.seen = text, !.reset = TRUE,
                                       !.arg = 1]]
    /\ UNCHANGED <<fs, env, last, sup, call>>

\* an active scope whose phase record holds a valid phase
InitConc ==
    /\ \E k \in 1..4 :
           fs = [d \in Dirs |->
                    IF d = ConcDir
                    THEN set_phase(create_marker(MarkerManagerInit(NoDir), "tdd_mode"), k)
                    ELSE NoDir]
    /\ env = [TDD_SUPERVISOR_MARKERS_DIR |-> "", TDD_SUPERVISOR_ACTIVE |-> ""]
    /\ last = Idle
    /\ procs = NoProcs
    /\ sup = NoSup
    /\ call = NoCall

NextConc ==
    \E p \in 1..NumProcs :
        \/ BeginGetPhase(p)
        \/ \E phase \in 2..4 : BeginSetPhase(p, phase)
        \/ WriteTextOpen(p)
        \/ WriteTextClose(p)
        \/ GetPhaseExists(p)
        \/ GetPhaseRead(p)

SpecConc == InitConc /\ [][NextConc]_vars

----------------------------------------------------------------------------
(* The guard beside the success cleanup: a PreToolUse guard process (procs[1])
   and a stop-hook process that has found compile and tests passing in phase
   4 (procs[2]) work on the directory of one scope at the same time.  Every
   file operation is a step: the guard's exists() calls and read_text, the
   stop hook's touch and each unlink of cleanup_all_markers. *)

\* the markers cleanup_all_markers removes, in its order (markers.py 110-119)
CleanupOrder ==
    <<"tdd_mode", "tdd_phase", "requirements_confirmed", "interfaces_designed",
      "tests_approved">>

\* guard line 48: markers.is_tdd_active()
GuardIsTddActive ==
    /\ procs[1].pc = "is_tdd_active"
    /\ procs' = [procs EXCEPT ![1] =
                    IF is_tdd_active(fs[ConcDir]) THEN [@ EXCEPT !.pc = "exists"]
                    ELSE [@ EXCEPT !.pc = "done"]]
    /\ UNCHANGED <<fs, env, last, sup, call>>

\* guard line 60, get_phase line 74: tdd_phase.exists()
GuardGetPhaseExists ==
    /\ procs[1].pc = "exists"
    /\ procs' = [procs EXCEPT ![1] =
                    IF fs[ConcDir].tdd_phase.exists THEN [@ EXCEPT !.pc = "read"]
                    ELSE [@ EXCEPT !.pc = "rules", !.current_phase = 1]]
    /\ UNCHANGED <<fs, env, last, sup, call>>

\* get_phase lines 76-84: read_text raises OSError when the file has been
\* removed since exists(); the except clause writes phase 1 and returns 1
GuardGetPhaseRead ==
    /\ procs[1].pc = "read"
    /\ LET g == get_phase(fs[ConcDir])
       IN  IF fs[ConcDir].tdd_phase.exists
           THEN /\ procs' = [procs EXCEPT ![1].pc = "rules", ![1].current_phase = g.phase]
                /\ fs' = [fs EXCEPT ![ConcDir] = g.m]
           ELSE /\ procs' = [procs EXCEPT ![1].pc = "rules", ![1].current_phase = 1,
                                          ![1].reset = TRUE]
                /\ fs' = [fs EXCEPT ![ConcDir] = set_phase(@, 1)]
    /\ UNCHANGED <<env, last, sup, call>>

\* guard lines 71-104: the rules of the phase read
GuardPhaseRules ==
    /\ procs[1].pc = "rules"
    /\ procs' = [procs EXCEPT ![1].pc = "done",
                              ![1].response = PhaseRules(procs[1].current_phase,
                                                         procs[1].cls)]
    /\ UNCHANGED <<fs, env, last, sup, call>>

\* stop hook line 203: markers.create_marker(markers.tests_passing)
SuccessCreateMarker ==
    /\ procs[2].pc = "create_marker"
    /\ fs' = [fs EXCEPT ![ConcDir] = create_marker(@, "tests_passing")]
    /\ procs' = [procs EXCEPT ![2].pc = "cleanup_all_markers", ![2].removed = 0]
    /\ UNCHANGED <<env, last, sup, call>>

\* stop hook line 206, cleanup_all_markers: the next marker is removed
SuccessRemoveMarker ==
    /\ procs[2].pc = "cleanup_all_markers"
    /\ LET i == procs[2].removed + 1
       IN  /\ fs' = [fs EXCEPT ![ConcDir] = remove_marker(@, CleanupOrder[i])]
           /\ procs' = [procs EXCEPT ![2].removed = i,
                                     ![2].pc = IF i = Len(CleanupOrder) THEN "done"
                                               ELSE "cleanup_all_markers"]
    /\ UNCHANGED <<env, last, sup, call>>

\* an active scope in phase 4 with some completion flags; the guard is asked
\* about a Write to a file of some classification
InitRace ==
    /\ \E flags \in SUBSET CompletionFlags :
           fs = [d \in Dirs |->
                    IF d = ConcDir
                    THEN [f \in DOMAIN NoDir |->
                             IF f \in flags THEN TRUE
                             ELSE set_phase(create_marker(MarkerManagerInit(NoDir),
                                                          "tdd_mode"), 4)[f]]
                    ELSE NoDir]
    /\ env = [TDD_SUPERVISOR_MARKERS_DIR |-> "", TDD_SUPERVISOR_ACTIVE |-> ""]
    /\ last = Idle
    /\ \E cls \in Classifications :
           procs = << [op |-> "tdd-phase-guard", pc |-> "is_tdd_active", cls |-> cls,
                       current_phase |-> 0, reset |-> FALSE, response |-> NoResponse],
                      [op |-> "tdd-orchestrator", pc |-> "create_marker", removed |-> 0] >>
    /\ sup = NoSup
    /\ call = NoCall

NextRace ==
    \/ GuardIsTddActive
    \/ GuardGetPhaseExists
    \/ GuardGetPhaseRead
    \/ GuardPhaseRules
    \/ SuccessCreateMarker
    \/ SuccessRemoveMarker

SpecRace == InitRace /\ [][NextRace]_vars

----------------------------------------------------------------------------
(* The supervised run (tdd_supervisor/orchestrator.py): one long-lived
   process that runs the four phases in turn, each as a conversational
   session of the agent API.  sup is the local state of run(): where it is
   (pc), the phase, the session identifier captured, the context the session
   was opened with, the turns issued in the phase and what happened so far
   (log).  The hooks of the sessions it opens run with get_env_vars() in
   their environment and so work on the supervisor's directory. *)

\* follow-up turns of one phase
MaxFollowUps == 2

PHASE_COMPLETE_SIGNAL == "---PHASE_COMPLETE---"

SUMMARY_VERIFIED_SIGNAL == "SUMMARY_VERIFIED"

GAPS_FOUND_SIGNAL == "GAPS_FOUND"

\* session identifiers the agent API gives the sessions of phases 1..4
AgentSessionIds == <<"a1", "a2", "a3", "a4">>

\* SupervisorMarkers (tdd_supervisor/markers.py)
get_env_vars ==
    [TDD_SUPERVISOR_MARKERS_DIR |-> SupervisorDir, TDD_SUPERVISOR_ACTIVE |-> "1"]

SupervisorMarkersInit(m) == [m EXCEPT !.dir = TRUE]

SupervisorMarkers_set_phase(m, phase) == [m EXCEPT !.tdd_phase = File(Str(phase))]

initialize(m) ==
    SupervisorMarkers_set_phase([m EXCEPT !.tdd_mode = TRUE, !.supervisor_active = TRUE], 1)

cleanup(m) == NoDir

\* the file the summary of a phase is kept in
SummaryFile(phase) == <<"requirements_summary", "interfaces_list", "tests_list">>[phase]

\* Path.write_text: the file is opened in text mode for writing, where a
\* line feed is written as os.linesep, itself a line feed on the platforms
\* of the hooks
write_text(t) == t

\* Path.read_text: the file is opened in text mode for reading (newline=None),
\* where "\r\n" and a lone "\r" are read as "\n"
RECURSIVE read_text(_)
read_text(t) ==
    IF t = <<>> THEN <<>>
    ELSE IF Head(t) = "\r" THEN
        IF Len(t) >= 2 /\ t[2] = "\n"
        THEN <<"\n">> \o read_text(Tail(Tail(t)))
        ELSE <<"\n">> \o read_text(Tail(t))
    ELSE <<Head(t)>> \o read_text(Tail(t))

\* mutant: a summary is appended to the one saved before
save_phase_summary_Appends(m, phase, summary) ==
    [m EXCEPT ![SummaryFile(phase)] = File(@.text \o write_text(summary))]

\* save_requirements_summary, save_interfaces_list, save_tests_list
save_phase_summary(m, phase, summary) ==
    [m EXCEPT ![SummaryFile(phase)] = File(write_text(summary))]

\* get_requirements_summary, get_interfaces_list, get_tests_list
get_phase_summary(m, phase) ==
    IF m[SummaryFile(phase)].exists THEN read_text(m[SummaryFile(phase)].text) ELSE <<>>

\* mutant: the context of phase 3 is built from the requirements alone
build_phase_context_Phase3OmitsInterfaces(phase, m) ==
    [k \in 1..(IF phase = 3 THEN 1 ELSE phase - 1) |-> get_phase_summary(m, k)]

\* _build_phase_context: the summaries the context of a phase is built from
build_phase_context(phase, m) == [k \in 1..(phase - 1) |-> get_phase_summary(m, k)]

\* texts of the agent: token sequences
Contains(text, signal) == \E i \in 1..Len(text) : text[i] = signal

\* the token the contexts of phases 1..3 tell the agent to say when the phase
\* is done (context.py lines 121, 161, 204)
InstructedToken == "PHASE_COMPLETE"

AgentTexts == {<<"ok">>, <<"done", PHASE_COMPLETE_SIGNAL>>, <<InstructedToken>>}

SummaryTexts == {<<"S">>, <<>>}

ReviewTexts ==
    {<<SUMMARY_VERIFIED_SIGNAL, "\n", "S">>, <<GAPS_FOUND_SIGNAL, "\n", "S", "+">>,
     <<GAPS_FOUND_SIGNAL, "\n", " ">>, <<GAPS_FOUND_SIGNAL>>, <<"R">>, <<>>}

\* how a call of the agent API ends: the stream ends, query raises, the
\* process is interrupted while it waits, or the call stalls: it neither
\* ends nor is interrupted
TurnEndings == {"end", "exception", "KeyboardInterrupt", "stall"}

\* what comes from the terminal at a prompt
TerminalInputs ==
    [kind : {"line"}, text : {"", "/done", "/NEXT", "/quit", "/abort", "add a test",
                              "@notes.md", "@gone.md"}]
        \cup [kind : {"EOFError", "KeyboardInterrupt"}, text : {""}]

\* read_user_input, lines 33-86
read_user_input(inp) ==
    IF inp.kind # "line" THEN ""
    ELSE IF inp.text = "@notes.md" THEN "requirements of notes.md"
    ELSE IF inp.text = "@gone.md" THEN ""
    ELSE inp.text

\* str.lower() on the inputs that occur
Lower(text) == IF text = "/NEXT" THEN "/next" ELSE text

\* text after the first line: split('\n', 1)[1]
RECURSIVE AfterFirstLine(_)
AfterFirstLine(t) ==
    IF t = <<>> THEN <<>>
    ELSE IF Head(t) = "\n" THEN Tail(t) ELSE AfterFirstLine(Tail(t))

\* mutant: a review that found gaps leaves the initial summary in place
ReviewResult_GapsKeepInitial(initial_summary, review_response) ==
    IF review_response # <<>> /\ Head(review_response) = SUMMARY_VERIFIED_SIGNAL
       /\ Contains(review_response, "\n")
    THEN Strip(AfterFirstLine(review_response))
    ELSE IF review_response # <<>> /\ Head(review_response) # GAPS_FOUND_SIGNAL
         /\ Head(review_response) # SUMMARY_VERIFIED_SIGNAL
    THEN review_response ELSE initial_summary

\* _generate_and_verify_summary, lines 357-380: the review response read
ReviewResult(initial_summary, review_response) ==
    IF review_response # <<>> /\ Head(review_response) = GAPS_FOUND_SIGNAL THEN
        IF Contains(review_response, "\n")
        THEN Strip(AfterFirstLine(review_response)) ELSE initial_summary
    ELSE IF review_response # <<>> /\ Head(review_response) = SUMMARY_VERIFIED_SIGNAL THEN
        IF Contains(review_response, "\n")
        THEN Strip(AfterFirstLine(review_response)) ELSE initial_summary
    ELSE IF review_response # <<>> THEN review_response ELSE initial_summary

\* a step of the supervisor: its local state and its directory afterwards
SupStep(s, m) ==
    /\ sup' = s
    /\ fs' = [fs EXCEPT ![SupervisorDir] = m]
    /\ UNCHANGED <<env, last, procs, call>>

\* run(), lines 148-155: the except clauses clean up and end the run
Except(s, outcome) ==
    SupStep([s EXCEPT !.pc = "exited", !.outcome = outcome], cleanup(fs[SupervisorDir]))

\* what run() has done so far: the event, its phase and the summary in hand
Logged(s, event) ==
    [s EXCEPT !.log = Append(@, [event |-> event, phase |-> s.phase, summary |-> s.summary])]

\* _run_phase_session, lines 305-309, and _run_phase, lines 202-208
AfterLoop(phase) == IF phase < 4 THEN "confirm" ELSE "phase4_end"

\* mutant: a follow-up turn is sent without resume
FollowUpResume_Fresh(s) == ""

\* lines 282-289: resume=session_id
FollowUpResume(s) == s.session_id

TurnOf(s, kind) ==
    [kind       |-> kind,
     resume     |-> IF kind = "first" THEN "" ELSE FollowUpResume(s),
     session_id |-> IF kind = "first" THEN AgentSessionIds[s.phase] ELSE FollowUpResume(s)]

\* TDDOrchestrator.__init__ and run(), lines 109-141
Run ==
    /\ sup.pc = "idle"
    /\ last = Idle
    /\ SupStep([sup EXCEPT !.pc = "run_phase", !.phase = 1],
               initialize(SupervisorMarkersInit(fs[SupervisorDir])))

\* _run_phase, lines 196-200: the phase is written, the context built and the
\* session opened; write_text raises when the directory is gone
RunPhase ==
    /\ sup.pc = "run_phase"
    /\ last = Idle
    /\ IF ~fs[SupervisorDir].dir THEN Except(sup, "error")
       ELSE LET m == SupervisorMarkers_set_phase(fs[SupervisorDir], sup.phase)
            IN  SupStep(Logged([sup EXCEPT !.pc = "first_turn",
                                           !.context = build_phase_context(sup.phase, m),
                                           !.session_id = "",
                                           !.phase_complete = FALSE,
                                           !.left_by = "",
                                           !.first_text = <<>>,
                                           !.initial_summary = <<>>,
                                           !.review_response = <<>>,
                                           !.summary = <<>>,
                                           !.turns = <<>>], "session"), m)

\* mutant: the text of a turn is not scanned for the completion marker
TurnEnd_MarkerNotScanned(s, text, ending) ==
    IF ending = "exception" THEN Except(s, "error")
    ELSE IF ending = "KeyboardInterrupt" THEN
        Except([s EXCEPT !.cancelled = TRUE], "interrupted")
    ELSE IF ending = "stall" THEN SupStep([s EXCEPT !.pc = "blocked"], fs[SupervisorDir])
    ELSE SupStep([s EXCEPT !.pc = "prompt"], fs[SupervisorDir])

\* the end of a conversational turn of the loop, lines 240-256 and 291-303:
\* `async for message in query(...)` is awaited with no timeout, so a call
\* that stalls leaves the supervisor waiting in it
TurnEnd(s, text, ending) ==
    IF ending = "exception" THEN Except(s, "error")
    ELSE IF ending = "KeyboardInterrupt" THEN
        Except([s EXCEPT !.cancelled = TRUE], "interrupted")
    ELSE IF ending = "stall" THEN SupStep([s EXCEPT !.pc = "blocked"], fs[SupervisorDir])
    ELSE IF Contains(text, PHASE_COMPLETE_SIGNAL) THEN
        SupStep([s EXCEPT !.phase_complete = TRUE, !.left_by = "marker",
                          !.pc = AfterLoop(s.phase)], fs[SupervisorDir])
    ELSE SupStep([s EXCEPT !.pc = "prompt"], fs[SupervisorDir])

\* _run_phase_session, lines 226-256: the first turn
FirstTurn(text, ending) ==
    /\ sup.pc = "first_turn"
    /\ last = Idle
    /\ LET t == TurnOf(sup, "first")
       IN  TurnEnd([sup EXCEPT !.turns = Append(@, t), !.session_id = t.session_id,
                               !.first_text = text],
                   text, ending)

\* lines 260-289: the prompt of the interactive loop
Prompt(inp) ==
    /\ sup.pc = "prompt"
    /\ last = Idle
    /\ LET user_input == read_user_input(inp)
           s          == [sup EXCEPT !.cancelled = @ \/ inp.kind = "KeyboardInterrupt"]
       IN  IF user_input = "" THEN SupStep(s, fs[SupervisorDir])
           ELSE IF Lower(user_input) \in {"/done", "/complete", "/next"} THEN
               SupStep([s EXCEPT !.phase_complete = TRUE, !.left_by = "skip",
                                 !.pc = AfterLoop(s.phase)], fs[SupervisorDir])
           ELSE IF Lower(user_input) \in {"/quit", "/exit", "/abort"} THEN
               Except([s EXCEPT !.cancelled = TRUE], "interrupted")
           ELSE /\ Len(sup.turns) <= MaxFollowUps
                /\ SupStep([s EXCEPT !.pc = "turn"], fs[SupervisorDir])

\* lines 282-303: a follow-up turn
Turn(text, ending) ==
    /\ sup.pc = "turn"
    /\ last = Idle
    /\ TurnEnd([sup EXCEPT !.turns = Append(@, TurnOf(sup, "follow_up"))], text, ending)

\* _confirm_phase_completion, lines 311-322: input() is called directly
Confirm(inp) ==
    /\ sup.pc = "confirm"
    /\ last = Idle
    /\ IF inp.kind = "KeyboardInterrupt" THEN
           Except([sup EXCEPT !.cancelled = TRUE], "interrupted")
       ELSE IF inp.kind = "EOFError" THEN Except(sup, "error")
       ELSE IF inp.text \in {"y", "yes", ""} THEN
           SupStep(Logged([sup EXCEPT !.pc = "summary"], "confirmed"), fs[SupervisorDir])
       ELSE SupStep(sup, fs[SupervisorDir])

\* _query_for_text, lines 382-422: the call is awaited under
\* asyncio.wait_for(timeout=300); when it stalls the TimeoutError is caught
\* and the text collected so far is returned
QueryForText(s, kind, ending) ==
    [s EXCEPT !.turns = Append(@, TurnOf(s, kind)),
              !.cancelled = @ \/ ending = "KeyboardInterrupt"]

\* _generate_and_verify_summary, lines 339-346: the summary request
Summary(text, ending) ==
    /\ sup.pc = "summary"
    /\ last = Idle
    /\ LET s == QueryForText(sup, "summary", ending)
       IN  IF ending = "exception" THEN Except(s, "error")
           ELSE IF ending = "KeyboardInterrupt" THEN Except(s, "interrupted")
           ELSE SupStep([s EXCEPT !.pc = "review", !.initial_summary = text],
                        fs[SupervisorDir])

\* lines 348-380: the review request and the reading of its response;
\* ContextBuilder.get_review_prompt gives a prompt for each of the phases 1..3
Review(text, ending) ==
    /\ sup.pc = "review"
    /\ last = Idle
    /\ LET s == QueryForText(sup, "review", ending)
       IN  IF ending = "exception" THEN Except(s, "error")
           ELSE IF ending = "KeyboardInterrupt" THEN Except(s, "interrupted")
           ELSE SupStep([s EXCEPT !.pc = "save",
                                  !.review_response = text,
                                  !.summary = ReviewResult(sup.initial_summary, text)],
                        fs[SupervisorDir])

\* _run_phase, lines 203-205, and the next call of run()
Save ==
    /\ sup.pc = "save"
    /\ last = Idle
    /\ IF ~fs[SupervisorDir].dir THEN Except(sup, "error")
       ELSE SupStep([Logged(sup, "saved") EXCEPT !.pc = "run_phase", !.phase = sup.phase + 1],
                    save_phase_summary(fs[SupervisorDir], sup.phase, sup.summary))

\* _run_phase, lines 206-208, and run(), line 146
Phase4End ==
    /\ sup.pc = "phase4_end"
    /\ last = Idle
    /\ SupStep([Logged(sup, "complete") EXCEPT !.pc = "exited", !.outcome = "complete"],
               cleanup(fs[SupervisorDir]))

\* a call of the agent API is in progress
InTurn == sup.pc \in {"first_turn", "turn", "summary", "review"}

\* the hooks of the session the supervisor is waiting for
NestedHook ==
    /\ InTurn
    /\ LET session_id == AgentSessionIds[sup.phase]
           main       == [is_main |-> TRUE, is_test |-> FALSE, is_config |-> FALSE]
           config     == CHOOSE c \in Profiles : c.name = "kotlin-maven"
       IN  \/ PhaseGuard(session_id, "Write", "/project/src/Service.kt", main)
           \/ \E agents_installed \in BOOLEAN :
                  Orchestrator(session_id, ProjectDir, FALSE, config, NoScript,
                               agents_installed)
           \/ AutoCompile(session_id, "Write", ProjectDir, main, config, "exit2")
           \/ CleanupMarkers(session_id, "SessionEnd")

InitSup ==
    /\ fs = [d \in Dirs |-> NoDir]
    /\ env = get_env_vars
    /\ last = Idle
    /\ procs = NoProcs
    /\ sup = NoSup
    /\ call = NoCall

NextSup ==
    \/ Run
    \/ RunPhase
    \/ \E text \in AgentTexts, ending \in TurnEndings : FirstTurn(text, ending)
    \/ \E inp \in TerminalInputs : Prompt(inp)
    \/ \E text \in AgentTexts, ending \in TurnEndings : Turn(text, ending)
    \/ \E inp \in [kind : {"line"}, text : {"y", "", "n"}]
                      \cup [kind : {"EOFError", "KeyboardInterrupt"}, text : {""}] :
           Confirm(inp)
    \/ \E text \in SummaryTexts, ending \in TurnEndings : Summary(text, ending)
    \/ \E text \in ReviewTexts, ending \in TurnEndings : Review(text, ending)
    \/ Save
    \/ Phase4End
    \/ NestedHook
    \/ HostReadsResponse

SpecSup == InitSup /\ [][NextSup]_vars

----------------------------------------------------------------------------
(* Two supervised runs on one machine: procs[r] is run r, env.now the system
   clock in ticks, and fs maps the directory of each workflow identifier to
   its contents *)

\* instants of the clock the runs are followed over, in ticks
MaxTicks == 3

\* the clock is finer than the identifier: ticks in one second
TicksPerSecond == 2

\* the seconds the followed instants fall in, as "%Y%m%d-%H%M%S" writes them
Timestamps == <<"20260101-000000", "20260101-000001", "20260101-000002">>

\* _generate_workflow_id, tdd_supervisor/markers.py lines 34-36:
\* datetime.now().strftime("%Y%m%d-%H%M%S") drops what is below the second
generate_workflow_id(now) == Timestamps[(now \div TicksPerSecond) + 1]

\* SupervisorMarkers.__init__, line 29
WorkflowDir(workflow_id) == "tdd-supervisor-" \o workflow_id

WorkflowDirs == {WorkflowDir(Timestamps[i]) : i \in 1..Len(Timestamps)}

Runs == {1, 2}

NotStarted == [op |-> "tdd-supervisor", pc |-> "not_started", workflow_id |-> "", phase |-> 0]

\* the summary run r saves
SummaryOf(r) == <<"S", Str(r)>>

LiveRun(r) == procs[r].pc \in {"constructed", "phase"}

RunStep(r, run, d, m) ==
    /\ procs' = [procs EXCEPT ![r] = run]
    /\ fs' = [fs EXCEPT ![d] = m]
    /\ UNCHANGED <<env, last, sup, call>>

ClockTick ==
    /\ env.now < MaxTicks
    /\ env' = [env EXCEPT !.now = @ + 1]
    /\ UNCHANGED <<fs, last, procs, sup, call>>

\* TDDOrchestrator.__init__, orchestrator.py line 117: SupervisorMarkers()
\* with no workflow identifier (markers.py lines 19-32)
ConstructRun(r) ==
    /\ procs[r].pc = "not_started"
    /\ LET workflow_id == generate_workflow_id(env.now)
           d           == WorkflowDir(workflow_id)
       IN  RunStep(r, [procs[r] EXCEPT !.pc = "constructed", !.workflow_id = workflow_id],
                   d, SupervisorMarkersInit(fs[d]))

\* run(), line 138, and the set_phase of _run_phase(1)
InitializeRun(r) ==
    /\ procs[r].pc = "constructed"
    /\ LET d == WorkflowDir(procs[r].workflow_id)
       IN  RunStep(r, [procs[r] EXCEPT !.pc = "phase", !.phase = 1],
                   d, [initialize(fs[d]) EXCEPT !.dir = TRUE])

\* _run_phase of a phase in 1..3 saves its summary; the next sets its phase
PhaseOfRunDone(r) ==
    /\ procs[r].pc = "phase"
    /\ procs[r].phase < 4
    /\ LET d == WorkflowDir(procs[r].workflow_id)
           p == procs[r].phase
       IN  RunStep(r, [procs[r] EXCEPT !.phase = p + 1],
                   d, SupervisorMarkers_set_phase(
                          [save_phase_summary(fs[d], p, SummaryOf(r)) EXCEPT !.dir = TRUE],
                          p + 1))

\* _run_phase(4), lines 206-208, or KeyboardInterrupt in run(), lines 146-149:
\* markers.cleanup() (markers.py lines 136-139)
RunCleansUp(r) ==
    /\ procs[r].pc = "phase"
    /\ LET d == WorkflowDir(procs[r].workflow_id)
       IN  RunStep(r, [procs[r] EXCEPT !.pc = "exited"], d, cleanup(fs[d]))

InitRuns ==
    /\ fs = [d \in WorkflowDirs |-> NoDir]
    /\ env = [TDD_SUPERVISOR_MARKERS_DIR |-> "", TDD_SUPERVISOR_ACTIVE |-> "", now |-> 0]
    /\ last = Idle
    /\ procs = [r \in Runs |-> NotStarted]
    /\ sup = NoSup
    /\ call = NoCall

NextRuns ==
    \/ ClockTick
    \/ \E r \in Runs : ConstructRun(r)
    \/ \E r \in Runs : InitializeRun(r)
    \/ \E r \in Runs : PhaseOfRunDone(r)
    \/ \E r \in Runs : RunCleansUp(r)

SpecRuns == InitRuns /\ [][NextRuns]_vars

----------------------------------------------------------------------------
(* The supervised run at a terminal whose input ends: procs[1] is the
   terminal, open until its input is exhausted and closed from then on.
   While it is open input() gives what the user types; once it is closed
   every input() meets the end of the input or an interrupt.  The supervisor
   process and the agent calls it awaits keep running. *)

ClosedTerminal == [NoProc EXCEPT !.op = "stdin", !.pc = "closed"]

\* what input() gives when no line is left
NoMoreInput == [kind : {"EOFError", "KeyboardInterrupt"}, text : {""}]

\* what input() can give at the interactive prompt and at the confirmation
PromptInputs == IF procs[1] = ClosedTerminal THEN NoMoreInput ELSE TerminalInputs

ConfirmInputs ==
    IF procs[1] = ClosedTerminal THEN NoMoreInput
    ELSE [kind : {"line"}, text : {"y", "", "n"}]

\* the input of the terminal is exhausted
TerminalCloses ==
    /\ procs = NoProcs
    /\ sup.pc # "exited"
    /\ procs' = [NoProcs EXCEPT ![1] = ClosedTerminal]
    /\ UNCHANGED <<fs, env, last, sup, call>>

\* the interactive prompt and the confirmation read the terminal
PromptAtTerminal ==
    /\ sup.pc = "prompt"
    /\ \E inp \in PromptInputs : Prompt(inp)

ConfirmAtTerminal ==
    /\ sup.pc = "confirm"
    /\ \E inp \in ConfirmInputs : Confirm(inp)

\* a step of the supervisor process or of the agent call it awaits
SupervisorStep ==
    \/ Run
    \/ RunPhase
    \/ \E text \in AgentTexts, ending \in TurnEndings : FirstTurn(text, ending)
    \/ PromptAtTerminal
    \/ \E text \in AgentTexts, ending \in TurnEndings : Turn(text, ending)
    \/ ConfirmAtTerminal
    \/ \E text \in SummaryTexts, ending \in TurnEndings : Summary(text, ending)
    \/ \E text \in ReviewTexts, ending \in TurnEndings : Review(text, ending)
    \/ Save
    \/ Phase4End

NextEof ==
    \/ SupervisorStep
    \/ TerminalCloses

SpecEof ==
    /\ InitSup
    /\ [][NextEof]_vars
    /\ WF_vars(SupervisorStep)

----------------------------------------------------------------------------
(* The marker store of the supervisor (tdd_supervisor/markers.py) used as a
   library: the operations of SupervisorMarkers are called in any order on
   the directory of one workflow, whose phase record can also be given any
   content from outside.  call is the operation that just returned: its
   argument, the directory it found and what it returned. *)

\* texts saved as summaries
SummaryContents == {<<>>, <<"A">>, <<"B", "\n", "C">>, <<"D", "\r", "E">>}

\* SupervisorMarkers.get_phase, lines 87-94: the value returned
SupervisorMarkers_get_phase(m) ==
    IF ~m.tdd_phase.exists THEN 1
    ELSE LET p == ParseInt(m.tdd_phase.text)
         IN  IF p.ok THEN p.val ELSE 1

Returned(op, arg, text, ret, ret_text) ==
    [op |-> op, arg |-> arg, text |-> text, pre |-> fs[SupervisorDir],
     ret |-> ret, ret_text |-> ret_text]

\* a step on the directory of the workflow
MarkersStep(m, c) ==
    /\ fs' = [fs EXCEPT ![SupervisorDir] = m]
    /\ call' = c
    /\ UNCHANGED <<env, last, procs, sup>>

\* the directory is created by SupervisorMarkers.__init__ and the calls are
\* made while it exists
MarkersSetPhase(phase) ==
    /\ fs[SupervisorDir].dir
    /\ MarkersStep(SupervisorMarkers_set_phase(fs[SupervisorDir], phase),
                   Returned("set_phase", phase, <<>>, 0, <<>>))

MarkersGetPhase ==
    /\ fs[SupervisorDir].dir
    /\ MarkersStep(fs[SupervisorDir],
                   Returned("get_phase", 0, <<>>,
                            SupervisorMarkers_get_phase(fs[SupervisorDir]), <<>>))

\* set_phase(get_phase()): the value read is written back
MarkersWriteBack ==
    /\ fs[SupervisorDir].dir
    /\ LET phase == SupervisorMarkers_get_phase(fs[SupervisorDir])
       IN  MarkersStep(SupervisorMarkers_set_phase(fs[SupervisorDir], phase),
                       Returned("write_back", phase, <<>>, phase, <<>>))

MarkersSaveSummary(phase, summary) ==
    /\ fs[SupervisorDir].dir
    /\ MarkersStep(save_phase_summary(fs[SupervisorDir], phase, summary),
                   Returned("save_summary", phase, summary, 0, <<>>))

MarkersGetSummary(phase) ==
    /\ fs[SupervisorDir].dir
    /\ MarkersStep(fs[SupervisorDir],
                   Returned("get_summary", phase, <<>>, 0,
                            get_phase_summary(fs[SupervisorDir], phase)))

\* the phase record is given a content from outside, or removed
PhaseRecordWritten(file) ==
    /\ fs[SupervisorDir].tdd_phase # file
    /\ MarkersStep([fs[SupervisorDir] EXCEPT !.tdd_phase = file],
                   Returned("external", 0, file.text, 0, <<>>))

InitMarkers ==
    /\ fs = [d \in Dirs |-> IF d = SupervisorDir
                            THEN initialize(SupervisorMarkersInit(NoDir)) ELSE NoDir]
    /\ env = get_env_vars
    /\ last = Idle
    /\ procs = NoProcs
    /\ sup = NoSup
    /\ call = NoCall

NextMarkers ==
    \/ \E phase \in 1..4 : MarkersSetPhase(phase)
    \/ MarkersGetPhase
    \/ MarkersWriteBack
    \/ \E phase \in 1..3, summary \in SummaryContents : MarkersSaveSummary(phase, summary)
    \/ \E phase \in 1..3 : MarkersGetSummary(phase)
    \/ \E text \in ExternalPhaseTexts : PhaseRecordWritten(File(text))
    \/ PhaseRecordWritten(NoFile)

SpecMarkers == InitMarkers /\ [][NextMarkers]_vars

----------------------------------------------------------------------------
(* The pattern classifier (hooks/lib/pattern_matcher.py).  Paths, globs and
   regular expressions are sequences whose items are the characters of the
   text; the placeholders glob_to_regex puts in and the regular-expression
   constructs it replaces them by are single items. *)

\* re.escape: the characters it puts a backslash before
SpecialChars ==
    {"(", ")", "[", "]", "{", "}", "?", "*", "+", "-", "|", "^", "$", "\\", ".", "&",
     "~", "#", " ", "\t", "\n", "\r"}

RECURSIVE re_escape(_)
re_escape(pattern) ==
    IF pattern = <<>> THEN <<>>
    ELSE (IF Head(pattern) \in SpecialChars THEN <<"\\", Head(pattern)>>
          ELSE <<Head(pattern)>>) \o re_escape(Tail(pattern))

\* str.replace(old, new): the occurrences of old from left to right, not
\* overlapping
RECURSIVE Replace(_, _, _)
Replace(text, old, new) ==
    IF Len(text) < Len(old) THEN text
    ELSE IF SubSeq(text, 1, Len(old)) = old
         THEN new \o Replace(SubSeq(text, Len(old) + 1, Len(text)), old, new)
         ELSE <<Head(text)>> \o Replace(Tail(text), old, new)

\* mutant: a single star is converted like a double star
glob_to_regex_StarCrossesSeparator(pattern) ==
    LET r0 == re_escape(pattern)
        r1 == Replace(r0, <<"\\", "*", "\\", "*">>, <<"__DOUBLE_STAR__">>)
        r2 == Replace(r1, <<"\\", "*">>, <<"__SINGLE_STAR__">>)
        r3 == Replace(r2, <<"\\", "?">>, <<"__QUESTION__">>)
        r4 == Replace(r3, <<"__DOUBLE_STAR__", "/">>, <<"(?:.*/)?">>)
        r5 == Replace(r4, <<"__DOUBLE_STAR__">>, <<".*">>)
        r6 == Replace(r5, <<"__SINGLE_STAR__">>, <<".*">>)
        r7 == Replace(r6, <<"__QUESTION__">>, <<"[^/]">>)
    IN  <<"^", "(?:.*/)?">> \o r7 \o <<"$">>

\* glob_to_regex, lines 20-44
glob_to_regex(pattern) ==
    LET r0 == re_escape(pattern)
        r1 == Replace(r0, <<"\\", "*", "\\", "*">>, <<"__DOUBLE_STAR__">>)
        r2 == Replace(r1, <<"\\", "*">>, <<"__SINGLE_STAR__">>)
        r3 == Replace(r2, <<"\\", "?">>, <<"__QUESTION__">>)
        r4 == Replace(r3, <<"__DOUBLE_STAR__", "/">>, <<"(?:.*/)?">>)
        r5 == Replace(r4, <<"__DOUBLE_STAR__">>, <<".*">>)
        r6 == Replace(r5, <<"__SINGLE_STAR__">>, <<"[^/]*">>)
        r7 == Replace(r6, <<"__QUESTION__">>, <<"[^/]">>)
    IN  <<"^", "(?:.*/)?">> \o r7 \o <<"$">>

Drop(text, n) == SubSeq(text, n + 1, Len(text))

\* re.match(regex, text) for the regular expressions glob_to_regex builds:
\* a backslash and the character it escapes, a character that stands for
\* itself, .* (any characters), [^/]* (any characters but the separator),
\* [^/] (one character but the separator), (?:.*/)? (nothing, or any
\* characters up to and including a separator), ^ and $
RECURSIVE re_match(_, _)
re_match(regex, text) ==
    IF regex = <<>> THEN TRUE
    ELSE LET item == Head(regex)
             rest == Tail(regex)
         IN  IF item = "^" THEN re_match(rest, text)
             ELSE IF item = "$" THEN text = <<>> /\ re_match(rest, text)
             ELSE IF item = "\\" THEN
                 /\ text # <<>>
                 /\ Head(text) = Head(rest)
                 /\ re_match(Tail(rest), Tail(text))
             ELSE IF item = ".*" THEN
                 \E n \in 0..Len(text) : re_match(rest, Drop(text, n))
             ELSE IF item = "[^/]*" THEN
                 \E n \in 0..Len(text) :
                     /\ \A i \in 1..n : text[i] # "/"
                     /\ re_match(rest, Drop(text, n))
             ELSE IF item = "[^/]" THEN
                 /\ text # <<>>
                 /\ Head(text) # "/"
                 /\ re_match(rest, Tail(text))
             ELSE IF item = "(?:.*/)?" THEN
                 \/ re_match(rest, text)
                 \/ \E n \in 1..Len(text) : text[n] = "/" /\ re_match(rest, Drop(text, n))
             ELSE /\ text # <<>>
                  /\ Head(text) = item
                  /\ re_match(rest, Tail(text))

\* matches_pattern, lines 47-50
matches_pattern(file_path, pattern) == re_match(glob_to_regex(pattern), file_path)

\* json.loads on the texts that occur: an array of strings without escape
\* sequences is parsed; any other text either is no JSON document
\* (JSONDecodeError) or gives elements that are no strings, on which
\* re.escape raises TypeError: both leave matches_any by an exception
JsonFails == [ok |-> FALSE, value |-> <<>>]

FirstQuote(t) == IF \E k \in 2..Len(t) : t[k] = "\""
                 THEN CHOOSE k \in 2..Len(t) : t[k] = "\"" /\ \A j \in 2..(k - 1) : t[j] # "\""
                 ELSE 0

RECURSIVE JsonElements(_, _)
JsonElements(t, acc) ==
    IF t = <<>> \/ Head(t) # "\"" \/ FirstQuote(t) = 0 THEN JsonFails
    ELSE LET k     == FirstQuote(t)
             value == SubSeq(t, 2, k - 1)
             rest  == LStrip(Drop(t, k))
         IN  IF rest = <<>> THEN JsonFails
             ELSE IF Head(rest) = "]" THEN
                 IF LStrip(Tail(rest)) = <<>>
                 THEN [ok |-> TRUE, value |-> Append(acc, value)] ELSE JsonFails
             ELSE IF Head(rest) = "," THEN JsonElements(LStrip(Tail(rest)), Append(acc, value))
             ELSE JsonFails

json_loads(text) ==
    LET t == LStrip(text)
    IN  IF t = <<>> \/ Head(t) # "[" THEN JsonFails
        ELSE LET u == LStrip(Tail(t))
             IN  IF u # <<>> /\ Head(u) = "]" THEN
                     IF LStrip(Tail(u)) = <<>> THEN [ok |-> TRUE, value |-> <<>>]
                     ELSE JsonFails
                 ELSE JsonElements(u, <<>>)

\* the loop of matches_any, lines 71-74
MatchesSome(file_path, patterns) ==
    \E i \in 1..Len(patterns) : matches_pattern(file_path, patterns[i])

\* matches_any, lines 53-74: patterns is a list of patterns or a string
matches_any(file_path, patterns) ==
    IF patterns.kind = "list" THEN
        [raised |-> FALSE, ret |-> MatchesSome(file_path, patterns.items)]
    ELSE IF patterns.text # <<>> /\ Head(patterns.text) = "[" THEN
        LET loaded == json_loads(patterns.text)
        IN  IF loaded.ok
            THEN [raised |-> FALSE, ret |-> MatchesSome(file_path, loaded.value)]
            ELSE [raised |-> TRUE, ret |-> FALSE]
    ELSE [raised |-> FALSE, ret |-> MatchesSome(file_path, <<patterns.text>>)]

Path_src_a_b_c_ts == <<"s", "r", "c", "/", "a", "/", "b", "/", "c", ".", "t", "s">>
Path_src_c_ts == <<"s", "r", "c", "/", "c", ".", "t", "s">>
Path_test_c_ts == <<"t", "e", "s", "t", "/", "c", ".", "t", "s">>
Path_deep_dir_x_spec_ts == <<"d", "e", "e", "p", "/", "d", "i", "r", "/", "x", ".", "s", "p", "e", "c", ".", "t", "s">>
Path_x_spec_ts == <<"x", ".", "s", "p", "e", "c", ".", "t", "s">>
Path_c_ts == <<"c", ".", "t", "s">>
Path_lib_src_c_ts == <<"l", "i", "b", "/", "s", "r", "c", "/", "c", ".", "t", "s">>
Path_srcs_c_ts == <<"s", "r", "c", "s", "/", "c", ".", "t", "s">>
Path_src_a == <<"s", "r", "c", "/", "a">>
Path_src_a_b == <<"s", "r", "c", "/", "a", "/", "b">>
Path_cxts == <<"c", "x", "t", "s">>
Path_bracket_ts == <<"[", "c", "]", ".", "t", "s">>
Path_src == <<"s", "r", "c">>
Path_star_ts == <<"*", ".", "t", "s">>

Paths ==
    {Path_src_a_b_c_ts, Path_src_c_ts, Path_test_c_ts, Path_deep_dir_x_spec_ts,
     Path_x_spec_ts, Path_c_ts, Path_lib_src_c_ts, Path_srcs_c_ts,
     Path_src_a, Path_src_a_b, Path_cxts, Path_bracket_ts,
     Path_src, Path_star_ts}

Glob_src_dirs_ts == <<"s", "r", "c", "/", "*", "*", "/", "*", ".", "t", "s">>
Glob_spec_ts == <<"*", ".", "s", "p", "e", "c", ".", "t", "s">>
Glob_ts == <<"*", ".", "t", "s">>
Glob_dirs_ts == <<"*", "*", "/", "*", ".", "t", "s">>
Glob_src_rest == <<"s", "r", "c", "/", "*", "*">>
Glob_src_one == <<"s", "r", "c", "/", "*">>
Glob_one_ts == <<"?", ".", "t", "s">>
Glob_c_ts == <<"c", ".", "t", "s">>
Glob_bracket_ts == <<"[", "c", "]", ".", "t", "s">>
Glob_src_one_c_ts == <<"s", "r", "c", "/", "*", "/", "c", ".", "t", "s">>
Glob_rest == <<"*", "*">>
Glob_s_rest_ts == <<"s", "*", "*", ".", "t", "s">>

Globs ==
    {Glob_src_dirs_ts, Glob_spec_ts, Glob_ts, Glob_dirs_ts,
     Glob_src_rest, Glob_src_one, Glob_one_ts, Glob_c_ts,
     Glob_bracket_ts, Glob_src_one_c_ts, Glob_rest, Glob_s_rest_ts}

List(items) == [kind |-> "list", items |-> items, text |-> <<>>]

String(text) == [kind |-> "str", items |-> <<>>, text |-> text]

Json_src_dirs_ts == <<"[", "\"", "s", "r", "c", "/", "*", "*", "/", "*", ".", "t", "s", "\"", "]">>

Json_two == <<"[", "\"", "*", ".", "s", "p", "e", "c", ".", "t", "s", "\"", ",", " ", "\"", "c", ".", "t", "s", "\"", "]">>

Json_empty == <<"[", "]">>

\* the values matches_any is given for patterns
PatternInputs ==
    {List(<<>>), List(<<Glob_src_dirs_ts>>), List(<<Glob_spec_ts, Glob_c_ts>>),
     List(<<Glob_bracket_ts>>),
     String(Glob_ts), String(Glob_src_rest), String(Json_src_dirs_ts), String(Json_two),
     String(Json_empty), String(Glob_bracket_ts)}

Matched(op, file_path, patterns, result) ==
    [op |-> op, file_path |-> file_path, patterns |-> patterns,
     raised |-> result.raised, ret |-> result.ret]

CallMatchesPattern(file_path, pattern) ==
    /\ call' = Matched("matches_pattern", file_path, String(pattern),
                       [raised |-> FALSE, ret |-> matches_pattern(file_path, pattern)])
    /\ UNCHANGED <<fs, env, last, procs, sup>>

CallMatchesAny(file_path, patterns) ==
    /\ call' = Matched("matches_any", file_path, patterns, matches_any(file_path, patterns))
    /\ UNCHANGED <<fs, env, last, procs, sup>>

InitPatterns ==
    /\ fs = [d \in Dirs |-> NoDir]
    /\ env = [TDD_SUPERVISOR_MARKERS_DIR |-> "", TDD_SUPERVISOR_ACTIVE |-> ""]
    /\ last = Idle
    /\ procs = NoProcs
    /\ sup = NoSup
    /\ call = NoCall

NextPatterns ==
    \/ \E file_path \in Paths, pattern \in Globs : CallMatchesPattern(file_path, pattern)
    \/ \E file_path \in Paths, patterns \in PatternInputs : CallMatchesAny(file_path, patterns)

SpecPatterns == InitPatterns /\ [][NextPatterns]_vars

----------------------------------------------------------------------------
(* Vocabulary of the properties *)

\* the directory the exited hook worked on, as it is now
Post == fs[last.dir]

\* the exited hook is a stop-hook invocation that got to the phase rules:
\* not re-entrant, scope active, not supervisor mode, a working directory
Gated ==
    /\ last.hook = "tdd-orchestrator"
    /\ ~last.input.stop_hook_active
    /\ last.pre.tdd_mode
    /\ ~is_supervisor_mode(env)
    /\ IsDir(last.input.cwd)

Blocked(reason) ==
    /\ last.response.decision = "block"
    /\ last.response.reason = reason

\* the i-th command run exists, ran `cmd` while current_phase was `at`
RanAt(i, cmd, at) ==
    /\ i \in 1..Len(last.cmds)
    /\ last.cmds[i].cmd = cmd
    /\ last.cmds[i].at = at

----------------------------------------------------------------------------
(* C1: the edit guard allows when the scope is inactive, the tool is not
   Write/Edit or the path is empty; otherwise, for a persisted phase p in
   1..4, it blocks exactly when p=1 and the path is main or test, p=2 and
   the path is test, or p=3 and the path is main, not test and not config. *)
C1_GuardDecisionTable ==
    last.hook = "tdd-phase-guard" =>
        \A p \in 1..4 :
            PersistedPhaseIs(last.pre, p) =>
                LET guarded == /\ last.pre.tdd_mode
                               /\ last.input.tool_name \in {"Write", "Edit"}
                               /\ last.input.file_path # ""
                    c       == last.cls
                    policy  == \/ p = 1 /\ (c.is_main \/ c.is_test)
                               \/ p = 2 /\ c.is_test
                               \/ p = 3 /\ c.is_main /\ ~c.is_test /\ ~c.is_config
                IN  last.response.decision = IF guarded /\ policy THEN "block" ELSE ""

\* a Write to a path that is both main and test was allowed in phase 3
C1_Witness ==
    /\ last.hook = "tdd-phase-guard"
    /\ PersistedPhaseIs(last.pre, 3)
    /\ last.pre.tdd_mode
    /\ last.input.tool_name = "Write"
    /\ last.input.file_path # ""
    /\ last.cls.is_main /\ last.cls.is_test
    /\ last.response.decision = ""

(* C2: a gated invocation that starts with persisted phase 1 blocks and
   leaves the phase record alone when requirements-confirmed is absent; when
   it is present it writes phase 2 and evaluates the phase-2 rule in the
   same invocation. *)
C2_Phase1To2 ==
    (Gated /\ PersistedPhaseIs(last.pre, 1)) =>
        IF ~last.pre.requirements_confirmed
        THEN /\ Blocked("format_phase1_block")
             /\ Post.tdd_phase = last.pre.tdd_phase
             /\ last.cmds = <<>>
             /\ last.writes = <<>>
        ELSE /\ last.writes # <<>>
             /\ last.writes[1] = 2
             /\ LET compiled == last.config.compile # ""
                    failed   == compiled /\ last.cmds[1].exit_code # 0
                IN  /\ compiled => RanAt(1, last.config.compile, 2)
                    /\ failed =>
                           /\ Blocked("format_phase2_compile_error")
                           /\ PersistedPhaseIs(Post, 2)
                    /\ (~failed /\ ~last.pre.interfaces_designed) =>
                           /\ Blocked("format_phase2_awaiting_approval")
                           /\ PersistedPhaseIs(Post, 2)
                    /\ (~failed /\ last.pre.interfaces_designed) =>
                           /\ Len(last.writes) >= 2
                           /\ last.writes[2] = 3

\* requirements were confirmed, the phase went to 2 and the compile of
\* phase 2 failed in the same invocation
C2_Witness ==
    /\ Gated
    /\ PersistedPhaseIs(last.pre, 1)
    /\ last.pre.requirements_confirmed
    /\ last.writes = <<2>>
    /\ Blocked("format_phase2_compile_error")
    /\ PersistedPhaseIs(Post, 2)

(* C3: with persisted phase 2 and a compile command, the command runs in
   every gated invocation; a non-zero exit blocks with the captured output
   and the phase record is untouched, whatever the interfaces flag is; exit
   0 without the flag blocks and leaves the record; phase 3 is written
   exactly when the command exits 0 and the flag is present. *)
C3_Phase2To3 ==
    (Gated /\ PersistedPhaseIs(last.pre, 2) /\ last.config.compile # "") =>
        /\ RanAt(1, last.config.compile, 2)
        /\ last.cmds[1].exit_code # 0 =>
               /\ Blocked("format_phase2_compile_error")
               /\ last.response.output = last.cmds[1].output
               /\ Post.tdd_phase = last.pre.tdd_phase
               /\ last.writes = <<>>
               /\ Len(last.cmds) = 1
        /\ (last.cmds[1].exit_code = 0 /\ ~last.pre.interfaces_designed) =>
               /\ Blocked("format_phase2_awaiting_approval")
               /\ Post.tdd_phase = last.pre.tdd_phase
               /\ last.writes = <<>>
        /\ (last.writes # <<>> /\ last.writes[1] = 3)
               <=> (last.cmds[1].exit_code = 0 /\ last.pre.interfaces_designed)

\* interfaces were approved earlier, the compile now fails: blocked in phase 2
C3_Witness ==
    /\ Gated
    /\ PersistedPhaseIs(last.pre, 2)
    /\ last.pre.interfaces_designed
    /\ RanAt(1, last.config.compile, 2)
    /\ last.cmds[1].exit_code # 0
    /\ Blocked("format_phase2_compile_error")
    /\ PersistedPhaseIs(Post, 2)

(* C4: with persisted phase 3 the command checked is testCompile when
   configured, compile otherwise; a non-zero exit blocks with the phase
   record untouched whatever the tests flag is; exit 0 without the flag
   blocks; phase 4 is written exactly on exit 0 (or nothing to run) with the
   flag present. *)
C4_Phase3To4 ==
    (Gated /\ PersistedPhaseIs(last.pre, 3)) =>
        LET test_compile == IF last.config.testCompile # "" THEN last.config.testCompile
                            ELSE last.config.compile
            ran    == test_compile # ""
            failed == ran /\ last.cmds[1].exit_code # 0
        IN  /\ ran => /\ RanAt(1, test_compile, 3)
                      /\ last.cmds[1].timeout = CompileTimeout
            /\ ~ran => \A i \in 1..Len(last.cmds) : last.cmds[i].at # 3
            /\ failed =>
                   /\ Blocked("format_phase3_compile_error")
                   /\ last.response.output = last.cmds[1].output
                   /\ Post.tdd_phase = last.pre.tdd_phase
                   /\ last.writes = <<>>
            /\ (~failed /\ ~last.pre.tests_approved) =>
                   /\ Blocked("format_phase3_awaiting_approval")
                   /\ Post.tdd_phase = last.pre.tdd_phase
                   /\ last.writes = <<>>
            /\ (last.writes # <<>> /\ last.writes[1] = 4)
                   <=> (~failed /\ last.pre.tests_approved)

\* no testCompile configured: compile was run for phase 3, exited 0, and
\* with the tests approved phase 4 was written
C4_Witness ==
    /\ Gated
    /\ PersistedPhaseIs(last.pre, 3)
    /\ last.config.testCompile = ""
    /\ RanAt(1, last.config.compile, 3)
    /\ last.cmds[1].exit_code = 0
    /\ last.pre.tests_approved
    /\ last.writes = <<4>>

(* C5: in phase 4 compile runs before test, and when compile exits non-zero
   the test command does not run: the invocation blocks with the compile
   output and the persisted phase is 4. *)
C5_Phase4CompileBeforeTest ==
    (Gated /\ last.current_phase = 4 /\ last.config.compile # "") =>
        \E i \in 1..Len(last.cmds) :
            /\ RanAt(i, last.config.compile, 4)
            /\ \A j \in 1..Len(last.cmds) :
                   (last.cmds[j].at = 4 /\ j # i) =>
                       /\ j = i + 1
                       /\ last.cmds[j].cmd = last.config.test
                       /\ last.cmds[i].exit_code = 0
            /\ last.cmds[i].exit_code # 0 =>
                   /\ i = Len(last.cmds)
                   /\ Blocked("format_phase4_orchestrator_compile_error")
                   /\ last.response.output = last.cmds[i].output
                   /\ PersistedPhaseIs(Post, 4)

\* the compile of phase 4 timed out: no test run, blocked, still phase 4
C5_Witness ==
    /\ Gated
    /\ PersistedPhaseIs(last.pre, 4)
    /\ last.config.test # ""
    /\ Len(last.cmds) = 1
    /\ RanAt(1, last.config.compile, 4)
    /\ last.cmds[1].exit_code # 0
    /\ Blocked("format_phase4_orchestrator_compile_error")
    /\ PersistedPhaseIs(Post, 4)

(* C6 as stated: the tests-passing signal is created only by an invocation
   in which the compile command exited 0 and, after it, the test command
   exited 0; no other step creates it. *)
C6_SignalOnlyAfterCompileAndTest ==
    [][\A d \in Dirs :
          (~fs[d].tests_passing /\ fs'[d].tests_passing) =>
              /\ last'.hook = "tdd-orchestrator"
              /\ last'.dir = d
              /\ \E i, j \in 1..Len(last'.cmds) :
                     /\ i < j
                     /\ last'.cmds[i].cmd = last'.config.compile
                     /\ last'.cmds[i].exit_code = 0
                     /\ last'.cmds[j].cmd = last'.config.test
                     /\ last'.cmds[j].exit_code = 0]_vars

\* the commands main() runs for phase 4 under a profile, in order
Phase4Commands(config) ==
    (IF config.compile # "" THEN <<config.compile>> ELSE <<>>)
        \o (IF config.test # "" THEN <<config.test>> ELSE <<>>)

(* C6 amended: the tests-passing signal is created only by a gated stop-hook
   invocation that evaluates phase 4 and in which every command it ran
   exited 0, its last runs being the configured ones of compile and test, in
   that order; a command that is not configured is not run, so with none
   configured the signal is created without any run.  No other step creates
   the signal. *)
C6_SignalOnlyAfterConfiguredCommandsPass ==
    [][\A d \in Dirs :
          (~fs[d].tests_passing /\ fs'[d].tests_passing) =>
              /\ last'.hook = "tdd-orchestrator"
              /\ last'.dir = d
              /\ ~last'.input.stop_hook_active
              /\ last'.pre.tdd_mode
              /\ ~is_supervisor_mode(env)
              /\ last'.current_phase = 4
              /\ last'.response.decision = ""
              /\ \A i \in 1..Len(last'.cmds) : last'.cmds[i].exit_code = 0
              /\ LET want == Phase4Commands(last'.config)
                     n    == Len(last'.cmds)
                 IN  /\ n >= Len(want)
                     /\ \A k \in 1..Len(want) :
                            /\ last'.cmds[n - Len(want) + k].cmd = want[k]
                            /\ last'.cmds[n - Len(want) + k].at = 4
                     /\ \A k \in 1..(n - Len(want)) : last'.cmds[k].at < 4]_vars

\* the signal was created by an invocation that ran no command at all
C6_Witness ==
    /\ Gated
    /\ ~last.pre.tests_passing
    /\ Post.tests_passing
    /\ last.config.compile = ""
    /\ last.config.test = ""
    /\ last.cmds = <<>>

(* C7: persisted phase 4, compile and test both exit 0: afterwards the
   tests-passing signal exists, the activity flag, the phase record and the
   three completion flags are absent, the directory still exists and
   nothing is printed. *)
C7_Phase4Success ==
    (/\ Gated
     /\ PersistedPhaseIs(last.pre, 4)
     /\ Len(last.cmds) = 2
     /\ RanAt(1, last.config.compile, 4) /\ last.cmds[1].exit_code = 0
     /\ RanAt(2, last.config.test, 4) /\ last.cmds[2].exit_code = 0) =>
        /\ Post.tests_passing
        /\ ~Post.tdd_mode
        /\ ~Post.tdd_phase.exists
        /\ ~Post.requirements_confirmed
        /\ ~Post.interfaces_designed
        /\ ~Post.tests_approved
        /\ Post.dir
        /\ last.response = NoResponse

\* a phase-4 success from a scope with all three completion flags set
C7_Witness ==
    /\ Gated
    /\ PersistedPhaseIs(last.pre, 4)
    /\ last.pre.requirements_confirmed
    /\ last.pre.interfaces_designed
    /\ last.pre.tests_approved
    /\ Len(last.cmds) = 2
    /\ last.cmds[1].exit_code = 0
    /\ last.cmds[2].exit_code = 0
    /\ last.cmds[2].timeout = TestTimeout
    /\ Post.tests_passing
    /\ ~Post.tdd_mode

(* C8: persisted phase 4, compile exits 0, test exits non-zero: the
   invocation blocks reporting the test failure and the directory is exactly
   as it was: no marker created or removed, phase still 4. *)
C8_Phase4TestFailure ==
    (/\ Gated
     /\ PersistedPhaseIs(last.pre, 4)
     /\ RanAt(1, last.config.compile, 4) /\ last.cmds[1].exit_code = 0
     /\ RanAt(2, last.config.test, 4) /\ last.cmds[2].exit_code # 0) =>
        /\ Blocked("format_phase4_orchestrator_test_failure")
        /\ last.response.output = last.cmds[2].output
        /\ Post = last.pre
        /\ PersistedPhaseIs(Post, 4)

\* the test command timed out after a clean compile
C8_Witness ==
    /\ Gated
    /\ PersistedPhaseIs(last.pre, 4)
    /\ last.pre.tests_approved
    /\ Len(last.cmds) = 2
    /\ last.cmds[1].exit_code = 0
    /\ last.cmds[2].output = "Command timed out after 300 seconds"
    /\ Blocked("format_phase4_orchestrator_test_failure")

(* C9: a re-entrant stop event (stop_hook_active) prints nothing, runs no
   command and leaves the phase record, the activity flag, the completion
   flags and the tests-passing signal as they were, in every state. *)
C9_LoopPrevention ==
    (last.hook = "tdd-orchestrator" /\ last.input.stop_hook_active) =>
        /\ last.response = NoResponse
        /\ last.cmds = <<>>
        /\ last.writes = <<>>
        /\ Post.tdd_phase = last.pre.tdd_phase
        /\ Post.tdd_mode = last.pre.tdd_mode
        /\ \A f \in CompletionFlags : Post[f] = last.pre[f]
        /\ Post.tests_passing = last.pre.tests_passing

\* re-entrant event on an active scope whose phase-1 rule would block and
\* whose stale tests-passing signal and missing phase record would be reset
C9_Witness ==
    /\ last.hook = "tdd-orchestrator"
    /\ last.input.stop_hook_active
    /\ last.config.compile # ""
    /\ last.pre.tdd_mode
    /\ ~last.pre.tdd_phase.exists
    /\ last.pre.tests_passing
    /\ ~last.pre.requirements_confirmed
    /\ Post = last.pre

(* C10: writing the phase record is atomic for concurrently running hook
   processes: a get_phase that overlaps a set_phase of another process reads
   the old or the new phase, never an empty or partial record, and so never
   resets the phase to 1. *)
C10_PhaseWriteAtomic ==
    \A p \in 1..NumProcs :
        procs[p].op = "get_phase" =>
            /\ ~procs[p].reset
            /\ procs[p].ret # 0 =>
                   /\ ParseInt(procs[p].seen).ok
                   /\ ParseInt(procs[p].seen).val = procs[p].ret

----------------------------------------------------------------------------
(* C11: the three completion flags are created only by the external
   confirmation: the step that creates one is no hook invocation and no
   supervisor step, whatever a build or test did.  A flag is removed only by
   the phase-4 success cleanup of the stop hook or by the deletion of the
   whole scope. *)
C11_FlagsSetOnlyExternally ==
    [][\A d \in Dirs : \A f \in CompletionFlags :
          /\ (~fs[d][f] /\ fs'[d][f]) => (last' = last /\ sup' = sup)
          /\ (fs[d][f] /\ ~fs'[d][f]) =>
                 \/ fs'[d] = NoDir
                 \/ /\ last' # last
                    /\ last'.hook = "tdd-orchestrator"
                    /\ last'.dir = d
                    /\ last'.current_phase = 4
                    /\ last'.response = NoResponse
                    /\ \A i \in 1..Len(last'.cmds) : last'.cmds[i].exit_code = 0
                    /\ fs'[d].tests_passing
                    /\ ~fs'[d].tdd_mode
                    /\ ~fs'[d].tdd_phase.exists]_vars

\* the compile of phase 2 exited 0 and the interfaces flag is still absent:
\* the invocation waits for the approval
C11_Witness ==
    /\ Gated
    /\ PersistedPhaseIs(last.pre, 2)
    /\ RanAt(1, last.config.compile, 2)
    /\ last.cmds[1].exit_code = 0
    /\ ~last.pre.interfaces_designed
    /\ ~Post.interfaces_designed
    /\ Blocked("format_phase2_awaiting_approval")

\* the phase record of directory state m exists and holds no phase of 1..4
Malformed(m) ==
    /\ m.tdd_phase.exists
    /\ \A p \in 1..4 : ~PersistedPhaseIs(m, p)

\* the exited hook got to its call of get_phase
ReadPhase ==
    \/ /\ last.hook = "tdd-phase-guard"
       /\ last.pre.tdd_mode
       /\ last.input.tool_name \in {"Write", "Edit"}
       /\ last.input.file_path # ""
    \/ /\ last.hook = "tdd-orchestrator"
       /\ ~last.input.stop_hook_active
       /\ last.pre.tdd_mode
    \/ /\ last.hook = "tdd-auto-compile"
       /\ last.pre.tdd_mode
       /\ last.input.tool_name \in {"Write", "Edit"}
       /\ IsDir(last.input.cwd)
       /\ (last.cls.is_main \/ last.cls.is_test)

(* C12: a hook that reads a malformed phase record (a number outside 1..4,
   text that is no number, nothing) reads 1 and leaves "1" in the record; a
   missing record reads as 1; the guard and the stop hook then decide as in
   phase 1: the guard blocks main and test paths, the stop hook blocks
   without the requirements flag and writes phase 2 with it. *)
C12_MalformedPhaseReadsAsOne ==
    (ReadPhase /\ (Malformed(last.pre) \/ ~last.pre.tdd_phase.exists)) =>
        /\ last.hook # "tdd-orchestrator" => last.current_phase = 1
        /\ (last.hook # "tdd-orchestrator" \/ ~Gated) =>
               Post.tdd_phase = IF last.pre.tdd_phase.exists \/ (last.hook = "tdd-orchestrator"
                                                                 /\ ~is_supervisor_mode(env))
                                THEN File(<<"1">>) ELSE NoFile
        /\ last.hook = "tdd-phase-guard" =>
               last.response.decision =
                   IF last.cls.is_main \/ last.cls.is_test THEN "block" ELSE ""
        /\ Gated =>
               IF ~last.pre.requirements_confirmed
               THEN /\ Blocked("format_phase1_block")
                    /\ last.current_phase = 1
                    /\ Post.tdd_phase = File(<<"1">>)
               ELSE /\ last.writes # <<>>
                    /\ last.writes[1] = 2

\* the record held "99": a Write to a main source file was blocked as in
\* phase 1 and the record now holds "1"
C12_Witness ==
    /\ last.hook = "tdd-phase-guard"
    /\ last.pre.tdd_mode
    /\ last.pre.tdd_phase = File(<<"9", "9">>)
    /\ last.cls.is_main
    /\ last.response.decision = "block"
    /\ Post.tdd_phase = File(<<"1">>)

\* every command of the runs has one outcome: two runs of the same command
\* line exit alike
CommandConsistent(cmds) ==
    \A i, j \in 1..Len(cmds) :
        cmds[i].cmd = cmds[j].cmd =>
            /\ cmds[i].exit_code = cmds[j].exit_code
            /\ cmds[i].output = cmds[j].output

(* C13: when a stop-hook invocation has exited and the same event is raised
   again on the directory as it left it, with every command exiting as it did
   (or would have) the first time, the second invocation blocks for the same
   reason or does not block either, and writes no phase. *)
C13_OrchestratorIdempotent ==
    last.hook = "tdd-orchestrator" =>
        \A script2 \in Scripts :
            LET second == OrchestratorMain(Post, last.input, env, last.config, script2,
                                           last.response.context # "")
            IN  CommandConsistent(last.cmds \o second.cmds) =>
                    /\ (second.response.decision = "block")
                           <=> (last.response.decision = "block")
                    /\ second.response.decision = "block" =>
                           second.response.reason = last.response.reason
                    /\ second.writes = <<>>
                    /\ second.m.tdd_phase = Post.tdd_phase

\* an invocation went from phase 1 to phase 3 and blocked there for the
\* missing approval; raised again with the same outcomes it blocks for the
\* same reason
C13_Witness ==
    /\ Gated
    /\ last.writes = <<2, 3>>
    /\ Len(last.cmds) = 2
    /\ Blocked("format_phase3_awaiting_approval")
    /\ LET second == OrchestratorMain(Post, last.input, env, last.config, NoScript, FALSE)
       IN  /\ CommandConsistent(last.cmds \o second.cmds)
           /\ second.cmds # <<>>
           /\ second.response.reason = "format_phase3_awaiting_approval"
           /\ second.writes = <<>>

\* the diagnostic text run_command returns for a command that outlived its
\* timeout or could not be spawned
FaultOutputs ==
    {"Command timed out after 120 seconds", "Command timed out after 300 seconds",
     "Command error: spawn failed"}

\* the reason the stop hook blocks with when run i of the invocation failed
FailureReason(i) ==
    IF last.cmds[i].at = 2 THEN "format_phase2_compile_error"
    ELSE IF last.cmds[i].at = 3 THEN "format_phase3_compile_error"
    ELSE IF last.cmds[i].cmd = last.config.test
              /\ (last.config.compile = "" \/ (i > 1 /\ last.cmds[i - 1].at = 4))
         THEN "format_phase4_orchestrator_test_failure"
    ELSE "format_phase4_orchestrator_compile_error"

(* C14: a command that outlives its timeout or cannot be spawned comes back
   as exit code 1 with a diagnostic text and is handled as a failing command:
   it is the last run of the invocation (no retry), the stop hook blocks with
   the failure reason of the phase it ran in and that text, the persisted
   phase is that phase, the activity and completion flags are as they were
   and no tests-passing signal is created; the auto-compile hook reports it
   in an approve message and changes no marker. *)
C14_CommandFaultIsFailure ==
    /\ last.hook = "tdd-orchestrator" =>
           \A i \in 1..Len(last.cmds) :
               last.cmds[i].output \in FaultOutputs =>
                   /\ last.cmds[i].exit_code = 1
                   /\ i = Len(last.cmds)
                   /\ \A j \in 1..(i - 1) : last.cmds[j].exit_code = 0
                   /\ Blocked(FailureReason(i))
                   /\ last.response.output = last.cmds[i].output
                   /\ PersistedPhaseIs(Post, last.cmds[i].at)
                   /\ \A f \in CompletionFlags \cup {"tdd_mode"} : Post[f] = last.pre[f]
                   /\ Post.tests_passing => last.pre.tests_passing
    /\ (last.hook = "tdd-auto-compile" /\ last.cmds # <<>>) =>
           /\ Len(last.cmds) = 1
           /\ last.cmds[1].output \in {"Compilation timed out after 120 seconds",
                                       "Compilation error: spawn failed"} =>
                  /\ last.cmds[1].exit_code = 1
                  /\ last.response.decision = "approve"
                  /\ last.response.output = last.cmds[1].output
                  /\ Post = [last.pre EXCEPT !.dir = TRUE, !.tdd_phase = Post.tdd_phase]

\* requirements and interfaces were confirmed and the compile passed for
\* phase 2; the test compile of phase 3 could not be spawned
C14_Witness ==
    /\ Gated
    /\ last.writes = <<2, 3>>
    /\ Len(last.cmds) = 2
    /\ last.cmds[2].output = "Command error: spawn failed"
    /\ Blocked("format_phase3_compile_error")
    /\ PersistedPhaseIs(Post, 3)
    /\ last.pre.tests_approved

(* C15: the stop hook runs no command that is not configured and blocks only
   for a missing completion flag or for a configured command that exited
   non-zero; with no command to check, phase 2 and phase 3 advance exactly
   when their flag is present. *)
C15_AbsentCommandNeverBlocks ==
    Gated =>
        /\ \A i \in 1..Len(last.cmds) : last.cmds[i].cmd # ""
        /\ last.config.compile = "" =>
               \A i \in 1..Len(last.cmds) : last.cmds[i].at # 2
        /\ (last.config.compile = "" /\ last.config.testCompile = "") =>
               \A i \in 1..Len(last.cmds) : last.cmds[i].at = 4
        /\ last.response.decision = "block" =>
               \/ /\ last.response.reason = "format_phase1_block"
                  /\ ~last.pre.requirements_confirmed
               \/ /\ last.response.reason = "format_phase2_awaiting_approval"
                  /\ ~last.pre.interfaces_designed
               \/ /\ last.response.reason = "format_phase3_awaiting_approval"
                  /\ ~last.pre.tests_approved
               \/ /\ last.cmds # <<>>
                  /\ last.cmds[Len(last.cmds)].exit_code # 0
                  /\ last.response.reason = FailureReason(Len(last.cmds))
        /\ (last.config.compile = "" /\ PersistedPhaseIs(last.pre, 2)) =>
               ((last.writes # <<>> /\ last.writes[1] = 3) <=> last.pre.interfaces_designed)
        /\ (last.config.compile = "" /\ last.config.testCompile = ""
            /\ PersistedPhaseIs(last.pre, 3)) =>
               ((last.writes # <<>> /\ last.writes[1] = 4) <=> last.pre.tests_approved)

\* no profile resolved: phase 2 and phase 3 were passed on their flags alone
\* and no command ran
C15_Witness ==
    /\ Gated
    /\ last.config = NoProfile
    /\ PersistedPhaseIs(last.pre, 2)
    /\ last.pre.interfaces_designed
    /\ last.pre.tests_approved
    /\ last.writes = <<3, 4>>
    /\ last.cmds = <<>>

(* C16: with TDD_SUPERVISOR_MARKERS_DIR set, the MarkerManager of every
   session identifier resolves to the one supervisor directory and is in
   supervisor mode: every hook, whatever its session, finds the directory
   as the step before it left it and changes no other directory, so nothing
   is ever stored in a session's own directory. *)
C16_ScopeConvergence ==
    [][env.TDD_SUPERVISOR_MARKERS_DIR # "" =>
          /\ \A a \in Sessions : \A b \in Sessions :
                 markers_dir(a, env) = markers_dir(b, env)
          /\ is_supervisor_mode(env)
          /\ last' # last /\ last' # Idle =>
                 /\ last'.dir = env.TDD_SUPERVISOR_MARKERS_DIR
                 /\ last'.pre = fs[env.TDD_SUPERVISOR_MARKERS_DIR]
          /\ \A a \in Sessions : fs'[SessionDir(a)] = NoDir]_vars

\* the guard of session s2 found the activity flag and the phase record in
\* the supervisor directory and blocked as in phase 1; its own directory was
\* never created
C16_Witness ==
    /\ env.TDD_SUPERVISOR_MARKERS_DIR = SupervisorDir
    /\ last.hook = "tdd-phase-guard"
    /\ last.input.session_id = "s2"
    /\ last.dir = SupervisorDir
    /\ last.pre.tdd_mode
    /\ last.pre.tdd_phase = File(<<"1">>)
    /\ last.response.decision = "block"
    /\ fs[SessionDir("s2")] = NoDir

----------------------------------------------------------------------------
(* C25: an invocation of the cleanup hook prints nothing and raises nothing;
   when its event is SessionEnd nothing of the scope is left afterwards (no
   directory, hence no activity flag, no phase record, no completion flag
   and no tests-passing signal), also when there was nothing before; for any
   other event the directory is exactly as the hook found it. *)
C25_CleanupOnlyAtSessionEnd ==
    last.hook = "tdd-cleanup-markers" =>
        /\ last.response = NoResponse
        /\ last.input.hook_event_name = "SessionEnd" =>
               /\ Post = NoDir
               /\ ~Post.dir /\ ~Post.tdd_mode /\ ~Post.tdd_phase.exists
               /\ \A f \in CompletionFlags : ~Post[f]
               /\ ~Post.tests_passing
        /\ last.input.hook_event_name # "SessionEnd" => Post = last.pre

\* SessionEnd removed a scope that was active, past phase 1 and held the
\* tests-passing signal of an earlier round
C25_Witness ==
    /\ last.hook = "tdd-cleanup-markers"
    /\ last.input.hook_event_name = "SessionEnd"
    /\ last.pre.tdd_mode
    /\ last.pre.tdd_phase.exists
    /\ last.pre.requirements_confirmed
    /\ last.pre.tests_passing
    /\ Post = NoDir

----------------------------------------------------------------------------
(* Fall-through of the stop hook *)

\* the completion flag that lets phase k end, and the reason the stop hook
\* blocks with while it is absent
FlagOf(k) == <<"requirements_confirmed", "interfaces_designed", "tests_approved">>[k]

AwaitingReason(k) ==
    <<"format_phase1_block", "format_phase2_awaiting_approval",
      "format_phase3_awaiting_approval">>[k]

(* C29: a gated invocation that starts with persisted phase p writes the
   phases p+1, p+2, ... up to some phase q, in this order and without a gap:
   every phase from p to q-1 had its completion flag at the start and every
   command run for it exited 0; at q the invocation stops, blocking with the
   failure reason of q when a command of q failed, with the awaiting reason
   of q when q < 4 and its flag is absent (q stays persisted), and
   completing when q = 4 and nothing failed.  From phase 1 with the three
   flags and every command exiting 0, one invocation writes 2, 3, 4 and
   completes. *)
C29_FallThrough ==
    \A p \in 1..4 :
        (Gated /\ PersistedPhaseIs(last.pre, p)) =>
            LET n      == Len(last.writes)
                q      == p + n
                runs   == Len(last.cmds)
                failed == runs > 0 /\ last.cmds[runs].exit_code # 0
            IN  /\ q <= 4
                /\ \A i \in 1..n : last.writes[i] = p + i
                /\ \A i \in 1..runs :
                       /\ last.cmds[i].at \in p..q
                       /\ i > 1 => last.cmds[i - 1].at <= last.cmds[i].at
                /\ \A k \in p..(q - 1) :
                       /\ last.pre[FlagOf(k)]
                       /\ \A i \in 1..runs : last.cmds[i].at = k => last.cmds[i].exit_code = 0
                /\ failed =>
                       /\ last.cmds[runs].at = q
                       /\ Blocked(FailureReason(runs))
                       /\ PersistedPhaseIs(Post, q)
                /\ (~failed /\ q < 4) =>
                       /\ ~last.pre[FlagOf(q)]
                       /\ Blocked(AwaitingReason(q))
                       /\ PersistedPhaseIs(Post, q)
                /\ (~failed /\ q = 4) =>
                       /\ Post.tests_passing
                       /\ ~Post.tdd_mode
                       /\ ~Post.tdd_phase.exists
                       /\ last.response = NoResponse
                /\ (/\ p = 1
                    /\ \A f \in CompletionFlags : last.pre[f]
                    /\ \A i \in 1..runs : last.cmds[i].exit_code = 0) =>
                       /\ last.writes = <<2, 3, 4>>
                       /\ Post.tests_passing
                       /\ ~Post.tdd_mode

\* one invocation went from phase 1 through the compile of phase 2, the test
\* compile of phase 3 and the compile and the tests of phase 4 to Complete
C29_Witness ==
    /\ Gated
    /\ PersistedPhaseIs(last.pre, 1)
    /\ \A f \in CompletionFlags : last.pre[f]
    /\ last.writes = <<2, 3, 4>>
    /\ Len(last.cmds) = 4
    /\ \A i \in 1..4 : last.cmds[i].exit_code = 0
    /\ Post.tests_passing
    /\ ~Post.tdd_mode

----------------------------------------------------------------------------
(* Monotonicity of the persisted phase *)

\* the hooks that read the phase of a scope
PhaseReaders == {"tdd-phase-guard", "tdd-orchestrator", "tdd-auto-compile"}

(* C34: an invocation of the guard, the stop hook or the auto-compile hook
   that finds a valid phase p persisted leaves a valid phase q >= p
   persisted, reached by the single steps p+1, ..., q, each phase passed
   having had its completion flag at the start of the invocation; or it
   leaves no phase record, and then it is the phase-4 success cleanup of the
   stop hook.  An invocation that finds no phase record leaves none or a
   valid phase reached from 1 by single steps.  Only the stop hook changes
   the record. *)
C34_PhaseMonotone ==
    last.hook \in PhaseReaders =>
        LET n == Len(last.writes)
            success == /\ last.hook = "tdd-orchestrator"
                       /\ last.current_phase = 4
                       /\ Post.tests_passing
                       /\ ~Post.tdd_mode
                       /\ last.response = NoResponse
        IN  /\ \A p \in 1..4 :
                   PersistedPhaseIs(last.pre, p) =>
                       /\ \A i \in 1..n : last.writes[i] = p + i
                       /\ \A k \in p..(p + n - 1) : last.pre[FlagOf(k)]
                       /\ IF Post.tdd_phase.exists
                          THEN PersistedPhaseIs(Post, p + n)
                          ELSE success /\ p + n = 4
            /\ ~last.pre.tdd_phase.exists =>
                   /\ \A i \in 1..n : last.writes[i] = 1 + i
                   /\ \A k \in 1..n : last.pre[FlagOf(k)]
                   /\ IF Post.tdd_phase.exists
                      THEN PersistedPhaseIs(Post, 1 + n)
                      ELSE n = 0 \/ (success /\ 1 + n = 4)
            /\ (/\ last.hook # "tdd-orchestrator"
                /\ \E p \in 1..4 : PersistedPhaseIs(last.pre, p)) =>
                   Post.tdd_phase = last.pre.tdd_phase

\* a stop-hook invocation took the phase from 2 to 4 by the steps 3 and 4
\* and blocked there
C34_Witness ==
    /\ Gated
    /\ PersistedPhaseIs(last.pre, 2)
    /\ last.writes = <<3, 4>>
    /\ PersistedPhaseIs(Post, 4)
    /\ last.response.decision = "block"

----------------------------------------------------------------------------
(* The stop hook under the supervisor *)

(* C35: when the override directory is set or TDD_SUPERVISOR_ACTIVE is "1",
   a stop-hook invocation never blocks, runs no command, writes no phase
   transition, leaves a valid phase record, the activity flag, the
   completion flags and the tests-passing signal as they were, and prints
   nothing or an approve that carries the guidance of the phase read. *)
C35_SupervisorModeStopHookIsPassive ==
    (/\ last.hook = "tdd-orchestrator"
     /\ (env.TDD_SUPERVISOR_MARKERS_DIR # "" \/ env.TDD_SUPERVISOR_ACTIVE = "1")) =>
        /\ last.response.decision # "block"
        /\ last.cmds = <<>>
        /\ last.writes = <<>>
        /\ \A p \in 1..4 : PersistedPhaseIs(last.pre, p) => Post.tdd_phase = last.pre.tdd_phase
        /\ ~last.pre.tdd_phase.exists => ~Post.tdd_phase.exists
        /\ \A f \in CompletionFlags \cup {"tdd_mode", "tests_passing"} : Post[f] = last.pre[f]
        /\ \/ last.response = NoResponse
           \/ /\ last.response.decision = "approve"
              /\ last.response.context # ""
              /\ last.response.reason = ""

\* with only TDD_SUPERVISOR_ACTIVE set, the stop hook found phase 1 with the
\* requirements confirmed, left the phase alone and approved with guidance
C35_Witness ==
    /\ last.hook = "tdd-orchestrator"
    /\ env.TDD_SUPERVISOR_MARKERS_DIR = ""
    /\ env.TDD_SUPERVISOR_ACTIVE = "1"
    /\ last.pre.tdd_mode
    /\ last.pre.requirements_confirmed
    /\ PersistedPhaseIs(last.pre, 1)
    /\ PersistedPhaseIs(Post, 1)
    /\ last.response.decision = "approve"
    /\ last.response.context = "agents of phase 1"

----------------------------------------------------------------------------
(* Lifetime of the tests-passing signal *)

(* C38: a tests-passing signal left by an earlier round does not outlive the
   first stop-hook invocation of a new round: when a stop-hook invocation
   that is not re-entrant finds the scope active and the signal present, it
   exits with the signal removed, unless it is itself the invocation that
   ended the round with phase-4 success (the scope is inactive afterwards);
   so no Block and no transition of the new round happens beside a stale
   signal. *)
C38_StaleSignalRemovedByFirstStopHook ==
    (/\ last.hook = "tdd-orchestrator"
     /\ ~last.input.stop_hook_active
     /\ last.pre.tdd_mode
     /\ last.pre.tests_passing) =>
        \/ ~Post.tests_passing
        \/ ~Post.tdd_mode

----------------------------------------------------------------------------
(* Isolation of sessions *)

\* states the directory of the other session is put in: none, a scope
\* waiting in phase 1, a scope in phase 3, a finished round
OtherStates ==
    {NoDir,
     set_phase(create_marker(MarkerManagerInit(NoDir), "tdd_mode"), 1),
     [set_phase(create_marker(MarkerManagerInit(NoDir), "tdd_mode"), 3)
         EXCEPT !.requirements_confirmed = TRUE, !.interfaces_designed = TRUE],
     create_marker(MarkerManagerInit(NoDir), "tests_passing")}

\* the response the hook invocation l prints when the directories are f
ResponseGiven(f, l) ==
    LET m == f[markers_dir(l.input.session_id, env)]
    IN  IF l.hook = "tdd-phase-guard" THEN PhaseGuardMain(m, l.input, l.cls).response
        ELSE IF l.hook = "tdd-orchestrator" THEN
            OrchestratorMain(m, l.input, env, l.config,
                             IF l.cmds # <<>> /\ l.cmds[Len(l.cmds)].exit_code # 0
                             THEN [fail_at |-> Len(l.cmds), fail_kind |-> "exit2"]
                             ELSE NoScript,
                             FALSE).response
        ELSE NoResponse

(* C37: without the override, a guard, stop-hook or cleanup invocation for
   session a leaves the directory of every other session b as it was, and
   its response is the one it gives with the directory of b in any other
   state. *)
C37_SessionIsolation ==
    [][\A a \in Sessions : \A b \in Sessions \ {a} :
          (/\ env.TDD_SUPERVISOR_MARKERS_DIR = ""
           /\ last' # last
           /\ last' # Idle
           /\ last'.input.session_id = a) =>
              /\ fs'[SessionDir(b)] = fs[SessionDir(b)]
              /\ last'.dir = SessionDir(a)
              /\ \A other \in OtherStates :
                     ResponseGiven([fs EXCEPT ![SessionDir(b)] = other], last')
                         = last'.response]_vars

\* the guard of s2 blocked the edit of a main source file by the phase-1
\* rule while the scope of s1 was in phase 2, where the guard allows it
C37_Witness ==
    /\ env.TDD_SUPERVISOR_MARKERS_DIR = ""
    /\ last.hook = "tdd-phase-guard"
    /\ last.input.session_id = "s2"
    /\ last.dir = SessionDir("s2")
    /\ PersistedPhaseIs(last.pre, 1)
    /\ last.response.decision = "block"
    /\ fs[SessionDir("s1")].tdd_mode
    /\ PersistedPhaseIs(fs[SessionDir("s1")], 2)

----------------------------------------------------------------------------
(* Properties of the supervised run *)

\* the positions of the log at which `event` of `phase` was recorded
LogIndex(log, event, phase) ==
    {i \in 1..Len(log) : log[i].event = event /\ log[i].phase = phase}

\* the phases of the sessions opened so far, in the order they were opened
RECURSIVE SessionsOpened(_)
SessionsOpened(log) ==
    IF log = <<>> THEN <<>>
    ELSE IF Head(log).event = "session"
         THEN <<Head(log).phase>> \o SessionsOpened(Tail(log))
         ELSE SessionsOpened(Tail(log))

C18_CancellationDeletesScope ==
    /\ sup.cancelled => (sup.pc = "exited" /\ fs[SupervisorDir] = NoDir)
    /\ (sup.pc = "exited" /\ sup.outcome \in {"error", "interrupted"}) =>
           fs[SupervisorDir] = NoDir

\* C19: the step in which the supervisor treats phase 4 as complete (it
\* reports the workflow complete and removes the scope) is taken only when
\* the success of the test run is recorded in the scope (tests-passing, which
\* the stop hook creates after the compile and test commands succeeded); a
\* phase-4 session that ends without it triggers neither.
C19_Phase4CompletesOnlyOnSuccess ==
    [][(sup.outcome # "complete" /\ sup'.outcome = "complete") =>
          fs[SupervisorDir].tests_passing]_vars

\* C20: within a phase the first request of the session is the only one sent
\* without a session to resume, and it yields the session identifier of the
\* phase; every later request of the phase (the follow-up turns of the
\* interactive loop, the summary request and the review request) resumes
\* exactly that identifier and so stays in that session; and the supervisor
\* is past the loop of a phase only if the loop was left by the completion
\* marker or by a skip command, an abort ending the run instead.
C20_TurnsContinueFirstSession ==
    /\ sup.turns # <<>> =>
          /\ sup.turns[1].kind = "first"
          /\ sup.turns[1].resume = ""
          /\ sup.turns[1].session_id # ""
          /\ sup.turns[1].session_id = sup.session_id
          /\ \A i \in 2..Len(sup.turns) :
                /\ sup.turns[i].kind \in {"follow_up", "summary", "review"}
                /\ sup.turns[i].resume = sup.turns[1].session_id
                /\ sup.turns[i].session_id = sup.turns[1].session_id
    /\ sup.pc \in {"confirm", "summary", "review", "save", "phase4_end"} =>
          /\ sup.phase_complete
          /\ sup.left_by \in {"marker", "skip"}
    /\ sup.pc \in {"prompt", "turn"} => ~sup.phase_complete

\* a phase in which two follow-up turns, the summary request and the review
\* request followed the first turn, the loop having been left by a skip
C20_Witness ==
    /\ sup.pc = "save"
    /\ sup.left_by = "skip"
    /\ Len(sup.turns) = 5
    /\ sup.turns[2].kind = "follow_up"
    /\ sup.turns[3].kind = "follow_up"
    /\ sup.turns[5].kind = "review"
    /\ sup.turns[5].resume = "a1"

\* C21: when the text streamed in the first turn of a phase session holds
\* the literal completion marker and the turn ended normally, the supervisor
\* is never at the interactive prompt nor in a follow-up turn of that phase:
\* the loop was left by the marker, the first turn is the only turn of the
\* loop, and until the confirmation is accepted the supervisor is at the
\* confirmation step (phases 1..3) or at the end of phase 4.
C21_MarkerInFirstTurnSkipsPrompt ==
    (/\ sup.turns # <<>>
     /\ sup.pc \notin {"exited", "blocked"}
     /\ \E i \in 1..Len(sup.first_text) : sup.first_text[i] = "---PHASE_COMPLETE---") =>
        /\ sup.pc \notin {"prompt", "turn"}
        /\ sup.phase_complete
        /\ sup.left_by = "marker"
        /\ \A i \in 1..Len(sup.turns) : sup.turns[i].kind # "follow_up"
        /\ (sup.pc # "run_phase" /\ LogIndex(sup.log, "confirmed", sup.phase) = {}) =>
               sup.pc = (IF sup.phase < 4 THEN "confirm" ELSE "phase4_end")

\* the marker came in the first turn of phase 2 and the confirmation is asked
C21_Witness ==
    /\ sup.pc = "confirm"
    /\ sup.phase = 2
    /\ Len(sup.turns) = 1
    /\ sup.first_text = <<"done", "---PHASE_COMPLETE---">>

\* C22: every conversational turn is guarded by a timeout, so the supervisor
\* is never left waiting in an agent call that has stalled: a stalled call is
\* abandoned and the run proceeds with the text collected so far.
C22_NoTurnBlocksForever == sup.pc # "blocked"

\* the requests made for the summary of a phase: after the turns of the
\* loop, one summary request and then one review request, in phases 1..3
TwoSummaryRequests ==
    /\ sup.phase \in 1..3
    /\ Len(sup.turns) >= 3
    /\ sup.turns[Len(sup.turns) - 1].kind = "summary"
    /\ sup.turns[Len(sup.turns)].kind = "review"
    /\ \A i \in 1..(Len(sup.turns) - 2) : sup.turns[i].kind \in {"first", "follow_up"}

\* once its session is opened, phase 4 sends no summary and no review
\* request and has no summary
Phase4NoSummary ==
    (sup.phase = 4 /\ sup.pc # "run_phase") =>
        /\ \A i \in 1..Len(sup.turns) : sup.turns[i].kind \in {"first", "follow_up"}
        /\ sup.pc \notin {"summary", "review", "save"}
        /\ sup.summary = <<>>

\* C23 (as stated): when the summary of a phase 1..3 is about to be saved,
\* exactly two requests were made for it, the summary request and then the
\* review request; the result is the text after the first line of the review
\* response r when r begins with the gaps-found marker or with the verified
\* marker, and r itself for any other non-empty r; phase 4 makes no such
\* request and has the empty summary.
C23_ReviewInterpretation ==
    /\ Phase4NoSummary
    /\ sup.pc = "save" =>
          LET r == sup.review_response
          IN  /\ TwoSummaryRequests
              /\ (r # <<>> /\ Head(r) \in {"GAPS_FOUND", "SUMMARY_VERIFIED"}) =>
                     sup.summary = AfterFirstLine(r)
              /\ (r # <<>> /\ Head(r) \notin {"GAPS_FOUND", "SUMMARY_VERIFIED"}) =>
                     sup.summary = r

\* C23 (amended): as above, except that the text after the first line of r
\* is taken without its surrounding white space, and that a response which
\* begins with a marker but has no further line, like an empty response,
\* leaves the initial summary s as the result.
C23_ReviewInterpretationWithFallback ==
    /\ Phase4NoSummary
    /\ sup.pc = "save" =>
          LET r        == sup.review_response
              s        == sup.initial_summary
              marked   == r # <<>> /\ Head(r) \in {"GAPS_FOUND", "SUMMARY_VERIFIED"}
              has_line == \E i \in 1..Len(r) : r[i] = "\n"
          IN  /\ TwoSummaryRequests
              /\ (marked /\ has_line) => sup.summary = Strip(AfterFirstLine(r))
              /\ (marked /\ ~has_line) => sup.summary = s
              /\ (r # <<>> /\ ~marked) => sup.summary = r
              /\ r = <<>> => sup.summary = s

\* the review found gaps and the corrected text replaced the initial summary
C23_Witness ==
    /\ sup.pc = "save"
    /\ sup.initial_summary = <<"S">>
    /\ sup.review_response = <<"GAPS_FOUND", "\n", "S", "+">>
    /\ sup.summary = <<"S", "+">>

----------------------------------------------------------------------------
(* The summary kept for the later phases *)

(* C39: when the summary of a phase in 1..3 has just been saved and the
   initial summary the agent returned for it was not empty, the summary
   found in the directory for that phase is not empty, whatever the review
   response was: a marker with a corrected text, a marker alone, a marker
   followed only by blank text, text without a marker, or nothing. *)
C39_SavedSummaryNotEmpty ==
    (/\ sup.pc = "run_phase"
     /\ sup.phase \in 2..4
     /\ sup.initial_summary # <<>>) =>
        get_phase_summary(fs[SupervisorDir], sup.phase - 1) # <<>>

----------------------------------------------------------------------------
(* The directories of two supervised runs *)

(* C40: two supervised runs that are live at the same time, each started
   without a workflow identifier, have different identifiers and hence
   different directories, also when they were started at nearly the same
   instant; so the directory of a live run that has initialised it exists
   and the summaries in it are that run's own. *)
C40_LiveRunsHaveTheirOwnDirectory ==
    /\ \A r1, r2 \in Runs :
           (r1 # r2 /\ LiveRun(r1) /\ LiveRun(r2)) =>
               procs[r1].workflow_id # procs[r2].workflow_id
    /\ \A r \in Runs :
           procs[r].pc = "phase" =>
               LET m == fs[WorkflowDir(procs[r].workflow_id)]
               IN  /\ m.dir
                   /\ \A p \in 1..(procs[r].phase - 1) :
                          p <= 3 => get_phase_summary(m, p) = SummaryOf(r)

----------------------------------------------------------------------------
(* Properties of the marker store of the supervisor *)

\* C24: SupervisorMarkers.get_phase returns one of 1, 2, 3, 4 whatever the
\* phase record holds; when the record does not hold one of these numbers
\* (it is empty, not a number, or a number out of range such as 0, 5 or 99)
\* the value returned is 1; and when such a record exists, the record holds
\* "1" after the call.
C24_SupervisorPhaseReadIsBounded ==
    call.op = "get_phase" =>
        LET p     == ParseInt(call.pre.tdd_phase.text)
            valid == call.pre.tdd_phase.exists /\ p.ok /\ p.val \in 1..4
        IN  /\ call.ret \in 1..4
            /\ ~valid => call.ret = 1
            /\ (call.pre.tdd_phase.exists /\ ~valid) =>
                   fs[SupervisorDir].tdd_phase = File(<<"1">>)

\* the phase record holds exactly the decimal numeral of p
HoldsNumeral(m, p) == m.tdd_phase = File(Str(p))

\* the parts of the round trip that concern the phase record and a summary
\* that was never saved
PhaseRoundTrip ==
    /\ call.op = "set_phase" =>
           /\ call.arg \in 1..4
           /\ SupervisorMarkers_get_phase(fs[SupervisorDir]) = call.arg
    /\ (call.op = "get_phase" /\ \E p \in 1..4 : HoldsNumeral(call.pre, p)) =>
           HoldsNumeral(call.pre, call.ret)
    /\ (call.op = "write_back" /\ \E p \in 1..4 : HoldsNumeral(call.pre, p)) =>
           fs[SupervisorDir] = call.pre
    /\ (call.op = "get_summary" /\ ~call.pre[SummaryFile(call.arg)].exists) =>
           call.ret_text = <<>>

\* C26 (as stated): after set_phase(p), p in 1..4, get_phase returns p, and
\* writing back the value read from such a record leaves the directory as it
\* was; after a summary text t was saved, whatever was saved before, reading
\* that summary returns exactly t and the other summaries are as they were;
\* reading a summary that was never saved returns the empty text.
C26_StateRoundTrip ==
    /\ PhaseRoundTrip
    /\ call.op = "save_summary" =>
           /\ get_phase_summary(fs[SupervisorDir], call.arg) = call.text
           /\ \A k \in 1..3 \ {call.arg} :
                  fs[SupervisorDir][SummaryFile(k)] = call.pre[SummaryFile(k)]

\* C26 (amended): as above, the text read back being exactly t for every t
\* that holds no carriage return.
C26_StateRoundTripOfLineFeedTexts ==
    /\ PhaseRoundTrip
    /\ call.op = "save_summary" =>
           /\ (\A i \in 1..Len(call.text) : call.text[i] # "\r") =>
                  get_phase_summary(fs[SupervisorDir], call.arg) = call.text
           /\ \A k \in 1..3 \ {call.arg} :
                  fs[SupervisorDir][SummaryFile(k)] = call.pre[SummaryFile(k)]

\* a summary of several lines replaced another one saved before and reads
\* back as it was saved
C26_Witness ==
    /\ call.op = "save_summary"
    /\ call.arg = 2
    /\ call.text = <<"B", "\n", "C">>
    /\ call.pre.interfaces_list = File(<<"A">>)
    /\ get_phase_summary(fs[SupervisorDir], 2) = <<"B", "\n", "C">>

----------------------------------------------------------------------------
(* The completion token of the phase contexts *)

\* C31: when the first response of the agent in a phase 1..3 holds exactly
\* the token the phase context instructs (PHASE_COMPLETE) and the turn ended
\* normally, the turn loop ends without human input: the supervisor is never
\* at the interactive prompt of that phase and the loop is left by the marker.
C31_InstructedTokenEndsLoop ==
    (/\ sup.phase \in 1..3
     /\ sup.turns # <<>>
     /\ sup.pc \notin {"exited", "blocked"}
     /\ sup.first_text = <<InstructedToken>>) =>
        /\ sup.pc # "prompt"
        /\ sup.phase_complete
        /\ sup.left_by = "marker"

----------------------------------------------------------------------------
(* The guard beside the success cleanup *)

\* C33: a guard that runs while the stop hook does its phase-4 success
\* cleanup on the same scope allows the edit, whatever the interleaving and
\* whatever file is edited: it never blocks, and it never reads phase 1.
C33_GuardAllowsDuringSuccessCleanup ==
    (procs[1].op = "tdd-phase-guard" /\ procs[1].pc = "done") =>
        /\ procs[1].response.decision # "block"
        /\ procs[1].current_phase # 1

----------------------------------------------------------------------------
(* Progress of the interactive loop *)

----------------------------------------------------------------------------
(* The phase record during a supervised session *)

\* the conversational session of phase sup.phase is open
SessionRunning == sup.pc \in {"first_turn", "turn"}

\* C30: while the conversational session of supervised phase k is running,
\* the phase record of the shared directory holds k, and every guard or stop
\* hook nested in the session found k there when it started.
C30_PersistedPhaseIsSessionPhase ==
    SessionRunning =>
        /\ PersistedPhaseIs(fs[SupervisorDir], sup.phase)
        /\ last.hook \in {"tdd-phase-guard", "tdd-orchestrator"} =>
               PersistedPhaseIs(last.pre, sup.phase)

----------------------------------------------------------------------------
(* The state of the supervisor under nested hooks *)

\* C32: while a supervised run is under way, whatever hooks ran nested in its
\* sessions, the shared directory exists and holds the activity flag, the
\* supervisor flag, the phase record and the summary of every earlier phase.
C32_NestedHooksKeepSupervisorState ==
    sup.pc \notin {"idle", "exited"} =>
        LET m == fs[SupervisorDir]
        IN  /\ m.dir
            /\ m.tdd_mode
            /\ m.supervisor_active
            /\ m.tdd_phase.exists
            /\ \A j \in 1..(sup.phase - 1) : m[SummaryFile(j)].exists

----------------------------------------------------------------------------
(* Properties of the pattern classifier *)

\* text t is in the language of glob g, when a double star that no separator
\* follows is read as `bare` says: TRUE, any characters; FALSE, two single
\* stars
RECURSIVE InGlob(_, _, _)
InGlob(g, t, bare) ==
    IF g = <<>> THEN t = <<>>
    ELSE IF Len(g) >= 3 /\ g[1] = "*" /\ g[2] = "*" /\ g[3] = "/" THEN
        \/ InGlob(Drop(g, 3), t, bare)
        \/ \E n \in 1..Len(t) : t[n] = "/" /\ InGlob(Drop(g, 3), Drop(t, n), bare)
    ELSE IF bare /\ Len(g) >= 2 /\ g[1] = "*" /\ g[2] = "*" THEN
        \E n \in 0..Len(t) : InGlob(Drop(g, 2), Drop(t, n), bare)
    ELSE IF g[1] = "*" THEN
        \E n \in 0..Len(t) :
            /\ \A i \in 1..n : t[i] # "/"
            /\ InGlob(Tail(g), Drop(t, n), bare)
    ELSE IF g[1] = "?" THEN
        t # <<>> /\ t[1] # "/" /\ InGlob(Tail(g), Tail(t), bare)
    ELSE t # <<>> /\ t[1] = g[1] /\ InGlob(Tail(g), Tail(t), bare)

\* the glob with its implicit prefix of optional leading directories
GlobMatches(g, path, bare) ==
    \/ InGlob(g, path, bare)
    \/ \E n \in 1..Len(path) : path[n] = "/" /\ InGlob(g, Drop(path, n), bare)

\* what matches_pattern and matches_any return, given the reading of a glob
GlobSemantics(bare) ==
    /\ call.op = "matches_pattern" =>
           /\ ~call.raised
           /\ call.ret <=> GlobMatches(call.patterns.text, call.file_path, bare)
    /\ (call.op = "matches_any" /\ call.patterns.kind = "list") =>
           /\ ~call.raised
           /\ call.ret <=> \E i \in 1..Len(call.patterns.items) :
                               GlobMatches(call.patterns.items[i], call.file_path, bare)
    /\ (call.op = "matches_pattern" /\ call.patterns.text = Glob_src_dirs_ts) =>
           /\ call.file_path \in {Path_src_a_b_c_ts, Path_src_c_ts} => call.ret
           /\ call.file_path = Path_test_c_ts => ~call.ret
    /\ (call.op = "matches_pattern" /\ call.patterns.text = Glob_spec_ts
            /\ call.file_path = Path_deep_dir_x_spec_ts) => call.ret

\* C27 (as stated): matches_pattern(path, g) holds exactly when path, after
\* optional leading directories, reads as g with `**/` standing for zero or
\* more directory segments, every `*` for a run of characters without the
\* separator, `?` for one character that is not the separator, and every
\* other character for itself; src/**/*.ts matches src/a/b/c.ts and src/c.ts
\* and not test/c.ts, *.spec.ts matches deep/dir/x.spec.ts; and a path
\* matches a list of patterns exactly when it matches one of them.
C27_GlobSemantics == GlobSemantics(FALSE)

\* C27 (amended): as above, except that a `**` which no separator follows
\* stands for any characters, separators included.
C27_GlobSemanticsWithBareDoubleStar == GlobSemantics(TRUE)

\* src/**/*.ts was matched against src/a/b/c.ts, the double star standing
\* for two directories
C27_Witness ==
    /\ call.op = "matches_pattern"
    /\ call.patterns.text = Glob_src_dirs_ts
    /\ call.file_path = Path_src_a_b_c_ts
    /\ call.ret

\* C28: matches_any raises for no value of patterns and returns a boolean;
\* a pattern string that begins with "[" and is no list of patterns is
\* matched as the literal text it is, so it matches the path that ends with
\* that text and does not match every path.
C28_MatchesAnyNeverRaises ==
    call.op = "matches_any" =>
        /\ ~call.raised
        /\ call.ret \in BOOLEAN
        /\ (call.patterns = String(Glob_bracket_ts)) =>
               (call.ret <=> call.file_path = Path_bracket_ts)

====
